---- MODULE Spec2Model ----
(***************************************************************************)
(* Model of the GPU simulation engine of the voxel ecosystem: the          *)
(* double-buffered voxel and temperature state, the five dispatches of a   *)
(* tick (apply_commands, temperature_diffusion, intent_declaration,        *)
(* resolve_execute, stats_reduction) executed thread by thread, and the    *)
(* parity flip.                                                            *)
(*                                                                         *)
(* 32-bit unsigned words are pairs <<hi, lo>> of 16-bit halves, because    *)
(* the model checker's integers are 32-bit signed.                         *)
(***************************************************************************)
EXTENDS Integers, Sequences, FiniteSets, TLC

\* ------------------------------------------------------------------------
\* Bounds of the model
\* ------------------------------------------------------------------------
GridSize == 2
MaxTicks == 2

\* ------------------------------------------------------------------------
\* u32 arithmetic on <<hi, lo>> pairs
\* ------------------------------------------------------------------------
W16 == 65536

U32(n) == <<n \div W16, n % W16>>

\* e, once v has been evaluated: keeps the evaluation of long chains of
\* generator steps sequential
Then(v, e) == IF v = v THEN e ELSE e

\* F applied to the value v: a local (let or var) of the source, evaluated
\* where it is declared
Bind(v, F(_)) == CASE v = v -> F(v)

Xor2(a, b) == ((a + b) % 2) + 2 * (((a \div 2) + (b \div 2)) % 2)
Xor4(a, b) == Xor2(a % 4, b % 4) + 4 * Xor2(a \div 4, b \div 4)
Xor8(a, b) == Xor4(a % 16, b % 16) + 16 * Xor4(a \div 16, b \div 16)
Xor16(a, b) == Xor8(a % 256, b % 256) + 256 * Xor8(a \div 256, b \div 256)

Xor32(a, b) == <<Xor16(a[1], b[1]), Xor16(a[2], b[2])>>

\* x >> k for 0 <= k <= 31
Shr32(x, k) ==
    IF k >= 16 THEN <<0, x[1] \div (2 ^ (k - 16))>>
    ELSE <<x[1] \div (2 ^ k),
           (x[2] \div (2 ^ k)) + (x[1] % (2 ^ k)) * (2 ^ (16 - k))>>

\* full 32-bit product of two 16-bit values
Mul16(a, b) ==
    LET p0 == a * (b % 256)
        p1 == a * (b \div 256)
        low == p0 + (p1 % 256) * 256
    IN  <<((low \div W16) + (p1 \div 256)) % W16, low % W16>>

\* wrapping 32-bit product
Mul32(a, b) ==
    LET ll == Mul16(a[2], b[2])
    IN  <<(ll[1] + Mul16(a[1], b[2])[2] + Mul16(a[2], b[1])[2]) % W16, ll[2]>>

\* wrapping 32-bit sum
Add32(a, b) ==
    LET lo == a[2] + b[2]
    IN  <<(a[1] + b[1] + (lo \div W16)) % W16, lo % W16>>

Lt32(a, b) == a[1] < b[1] \/ (a[1] = b[1] /\ a[2] < b[2])

\* x % n for 1 <= n <= 65536
Mod32(x, n) == ((((x[1] % n) * 256) % n) * 256 + x[2]) % n

\* ------------------------------------------------------------------------
\* common.wgsl: PCG-RXS-M-XS-32 and the per-thread seed
\* ------------------------------------------------------------------------
PCG_MULT == <<11410, 30645>>      \* 747796405u
PCG_INC  == <<44118, 19205>>      \* 2891336453u
PCG_MIX  == <<4238, 62169>>       \* 277803737u
TICK_MIX == <<40503, 31161>>      \* 0x9E3779B9u
GRID_MIX == <<34283, 51819>>      \* 0x85EBCA6Bu

\* the output permutation shared by pcg_hash and pcg_next
pcg_output(s) ==
    Bind(Mul32(Xor32(Shr32(s, (s[1] \div 4096) + 4), s), PCG_MIX), LAMBDA word :
         Xor32(Shr32(word, 22), word))

pcg_advance(s) == Add32(Mul32(s, PCG_MULT), PCG_INC)

pcg_hash(input) == Bind(pcg_advance(input), LAMBDA state : pcg_output(state))

\* pcg_next returns pcg_output(old) and leaves pcg_advance(old) in the state
pcg_next(old) == pcg_output(old)

prng_seed(voxel_index, tick_count, grid_size, dispatch_salt) ==
    Bind(Xor32(Xor32(Xor32(U32(voxel_index), Mul32(U32(tick_count), TICK_MIX)),
                     Mul32(U32(grid_size), GRID_MIX)),
               U32(dispatch_salt)),
         LAMBDA input : pcg_hash(input))

\* the state of a thread's generator after n advances
RECURSIVE pcg_state_after(_, _)
pcg_state_after(s, n) == IF n = 0 THEN s ELSE Then(s, pcg_state_after(pcg_advance(s), n - 1))

\* ------------------------------------------------------------------------
\* common.wgsl: species hash
\* ------------------------------------------------------------------------
compute_species_id(g0, g1, g2, g3) ==
    Bind(Xor32(Xor32(Xor32(g0, g1), g2), g3), LAMBDA x0 :
    Bind(Mul32(Xor32(Shr32(x0, 8), x0), <<0, 27001>>), LAMBDA x1 :        \* 0x6979
    Bind(Mul32(Xor32(Shr32(x1, 8), x1), <<0, 565>>), LAMBDA x2 :          \* 0x0235
    Bind(Xor32(Shr32(x2, 16), x2)[2], LAMBDA id :
         IF id = 0 THEN 1 ELSE id))))

\* ------------------------------------------------------------------------
\* common.wgsl: constants, grid coordinates, neighbours
\* ------------------------------------------------------------------------
VOXEL_EMPTY == 0
VOXEL_WALL == 1
VOXEL_NUTRIENT == 2
VOXEL_ENERGY_SOURCE == 3
VOXEL_PROTOCELL == 4
VOXEL_WASTE == 5
VOXEL_HEAT_SOURCE == 6
VOXEL_COLD_SOURCE == 7

ACTION_NO_ACTION == 0
ACTION_DIE == 1
ACTION_PREDATE == 2
ACTION_REPLICATE == 3
ACTION_MOVE == 4
ACTION_IDLE == 5
DIR_SELF == 6

NO_INDEX == <<65535, 65535>>      \* 0xFFFFFFFFu
ZERO == <<0, 0>>

NumVoxels == GridSize * GridSize * GridSize
Idx == 0 .. (NumVoxels - 1)
Dirs == 0 .. 5

NEIGHBORS == << <<1, 0, 0>>, <<-1, 0, 0>>, <<0, 1, 0>>, <<0, -1, 0>>, <<0, 0, 1>>, <<0, 0, -1>> >>

grid_index(pos, gs) == pos[3] * gs * gs + pos[2] * gs + pos[1]

grid_coords(index, gs) == <<index % gs, (index \div gs) % gs, index \div (gs * gs)>>

\* the index of the neighbour as a u32, NO_INDEX outside the grid
neighbor_in_direction(pos, dir, gs) ==
    Bind(<<pos[1] + NEIGHBORS[dir + 1][1], pos[2] + NEIGHBORS[dir + 1][2],
           pos[3] + NEIGHBORS[dir + 1][3]>>, LAMBDA np :
         IF np[1] < 0 \/ np[2] < 0 \/ np[3] < 0 \/ np[1] >= gs \/ np[2] >= gs \/ np[3] >= gs
         THEN NO_INDEX
         ELSE U32(grid_index(np, gs)))

\* the direction three places on, modulo six
opposite_direction_flip3(d) == (d + 3) % 6
\* d ^ 1u
opposite_direction(d) == IF d % 2 = 0 THEN d + 1 ELSE d - 1

ToInt(x) == x[1] * W16 + x[2]

\* ------------------------------------------------------------------------
\* common.wgsl: voxel accessors.  A voxel is the record of the fields of
\* its eight words: word 0 = type | flags | energy, word 1 = age |
\* species_id, words 2-5 = genome, words 6-7 = extra.
\* ------------------------------------------------------------------------
ZERO_GENOME == <<ZERO, ZERO, ZERO, ZERO>>

MkVoxel(t, f, e, a, s, g, x) ==
    [type |-> t, flags |-> f, energy |-> e, age |-> a, species_id |-> s,
     genome |-> g, extra |-> x]

voxel_get_type(buf, idx) == buf[idx].type
voxel_get_energy(buf, idx) == buf[idx].energy
voxel_get_age(buf, idx) == buf[idx].age
voxel_get_species_id(buf, idx) == buf[idx].species_id
voxel_get_genome_word(buf, idx, word) == buf[idx].genome[word + 1]

genome_get_byte_from_words(g0, g1, g2, g3, byte_index) ==
    LET w == <<g0, g1, g2, g3>>[(byte_index \div 4) + 1]
        b == byte_index % 4
    IN  IF b = 0 THEN w[2] % 256
        ELSE IF b = 1 THEN w[2] \div 256
        ELSE IF b = 2 THEN w[1] % 256
        ELSE w[1] \div 256

genome_get_byte(buf, idx, byte_index) ==
    LET g == buf[idx].genome IN genome_get_byte_from_words(g[1], g[2], g[3], g[4], byte_index)

\* ------------------------------------------------------------------------
\* common.wgsl: intent words, [0:2] direction, [3:5] action, [6:31] bid
\* ------------------------------------------------------------------------
BID_SPAN == 67108864              \* 0x03FFFFFF + 1

intent_encode_predate(action, direction, bid) ==
    LET b == bid % BID_SPAN
        a == IF action = ACTION_REPLICATE THEN ACTION_PREDATE ELSE action
    IN  <<b \div 1024, (direction % 8) + 8 * (a % 8) + 64 * (b % 1024)>>

intent_encode(action, direction, bid) ==
    LET b == bid % BID_SPAN
    IN  <<b \div 1024, (direction % 8) + 8 * (action % 8) + 64 * (b % 1024)>>

intent_get_direction(intent) == intent[2] % 8
intent_get_action(intent) == (intent[2] \div 8) % 8
intent_get_bid_25(intent) == ((intent[2] \div 64) + 1024 * intent[1]) % (BID_SPAN \div 2)
intent_get_bid(intent) == ((intent[2] \div 64) + 1024 * intent[1]) % BID_SPAN

\* ------------------------------------------------------------------------
\* Uniform parameters.  params is a record of the SimParams fields the
\* kernels read, each already in the form the kernel converts it to:
\*   integers for the fields read through u32(...),
\*   rates r as the integer k with r = k / 65536,
\*   fractions as <<numerator, denominator>>.
\* Temperatures are fixed-point: the integer t stands for t / TEMP_ONE.
\* ------------------------------------------------------------------------
TEMP_ONE == 4

\* u32(rate * 4294967295.0) for rate = k / 65536; the conversion saturates
RateThreshold(k) == IF k >= W16 THEN NO_INDEX ELSE <<k, 0>>

\* temp_modifier = 1.0 + temp_sensitivity * (local_temp - 0.5), as the
\* fraction <<numerator, denominator>>
compute_temp_modifier(local_temp, temp_sensitivity) ==
    <<2 * TEMP_ONE + temp_sensitivity * (2 * local_temp - TEMP_ONE), 2 * TEMP_ONE>>

\* u32(f32(x) * temp_mod): truncation, negative values convert to 0
ScaleU32(x, temp_mod) ==
    IF temp_mod[1] <= 0 THEN 0 ELSE (x * temp_mod[1]) \div temp_mod[2]

Min(a, b) == IF a <= b THEN a ELSE b
Max(a, b) == IF a >= b THEN a ELSE b

\* select(0u, a - b, a >= b)
SatSubWrap(a, b) == (a - b) % W16
SatSub(a, b) == IF a >= b THEN a - b ELSE 0

\* ------------------------------------------------------------------------
\* resolve_execute.wgsl (M6): local helpers
\* ------------------------------------------------------------------------
pack_word0(vtype, flags, energy) ==
    [type |-> vtype % 256, flags |-> flags % 256, energy |-> energy % W16]

pack_word1(age, species_id) == [age |-> age % W16, species_id |-> species_id % W16]

\* one write of the eight words of voxel idx into the bound write buffer
write_voxel(idx, w0, w1, w2, w3, w4, w5, w6, w7) ==
    <<idx, MkVoxel(w0.type, w0.flags, w0.energy, w1.age, w1.species_id,
                   <<w2, w3, w4, w5>>, <<w6, w7>>)>>

copy_voxel(voxel_read, idx) == <<idx, voxel_read[idx]>>

write_empty(idx) ==
    write_voxel(idx, pack_word0(0, 0, 0), pack_word1(0, 0), ZERO, ZERO, ZERO, ZERO, ZERO, ZERO)

\* One iteration of the contender loop of find_contender_winner; best is
\* <<best_idx, best_bid, best_action>> with best_idx a u32.
ContenderStepAnyDir(intent_read, target_pos, gs, d, best) ==
    Bind(neighbor_in_direction(target_pos, d, gs), LAMBDA ni :
         IF ni = NO_INDEX THEN best
         ELSE Bind(intent_read[ToInt(ni)], LAMBDA intent :
              Bind(intent_get_action(intent), LAMBDA action :
              Bind(intent_get_bid(intent), LAMBDA bid :
                   IF action # ACTION_REPLICATE /\ action # ACTION_MOVE THEN best
                   ELSE IF bid > best[2] \/ (bid = best[2] /\ Lt32(best[1], ni))
                        THEN <<ni, bid, action>>
                        ELSE best))))
ContenderStep(intent_read, target_pos, gs, d, best) ==
    Bind(neighbor_in_direction(target_pos, d, gs), LAMBDA ni :
         IF ni = NO_INDEX THEN best
         ELSE Bind(intent_read[ToInt(ni)], LAMBDA intent :
              Bind(intent_get_action(intent), LAMBDA action :
              Bind(intent_get_bid(intent), LAMBDA bid :
                   IF action # ACTION_REPLICATE /\ action # ACTION_MOVE THEN best
                   ELSE IF intent_get_direction(intent) # opposite_direction(d) THEN best
                   ELSE IF bid > best[2] \/ (bid = best[2] /\ Lt32(best[1], ni))
                        THEN <<ni, bid, action>>
                        ELSE best))))

\* the neighbours that pass the checks of the contender scan of target_pos
FoundContenders(intent_read, target_pos, gs) ==
    {ni \in {neighbor_in_direction(target_pos, d, gs) : d \in 0 .. 5} \ {NO_INDEX} :
        \E d \in 0 .. 5 :
            /\ neighbor_in_direction(target_pos, d, gs) = ni
            /\ intent_get_action(intent_read[ToInt(ni)]) \in {ACTION_REPLICATE, ACTION_MOVE}
            /\ intent_get_direction(intent_read[ToInt(ni)]) = opposite_direction(d)}

RECURSIVE ContenderLoop(_, _, _, _, _)
ContenderLoop(intent_read, target_pos, gs, d, best) ==
    IF d >= 6 THEN best
    ELSE Then(best, ContenderLoop(intent_read, target_pos, gs, d + 1,
                                  ContenderStep(intent_read, target_pos, gs, d, best)))

find_contender_winner(intent_read, target_pos, gs) ==
    ContenderLoop(intent_read, target_pos, gs, 0, <<NO_INDEX, 0, 0>>)

PredationStep(intent_read, target_pos, gs, d, best) ==
    Bind(neighbor_in_direction(target_pos, d, gs), LAMBDA ni :
         IF ni = NO_INDEX THEN best
         ELSE Bind(intent_read[ToInt(ni)], LAMBDA intent :
              Bind(intent_get_bid(intent), LAMBDA bid :
                   IF intent_get_action(intent) # ACTION_PREDATE THEN best
                   ELSE IF intent_get_direction(intent) # opposite_direction(d) THEN best
                   ELSE IF bid > best[2] \/ (bid = best[2] /\ Lt32(best[1], ni))
                        THEN <<ni, bid>>
                        ELSE best)))

RECURSIVE PredationLoop(_, _, _, _, _)
PredationLoop(intent_read, target_pos, gs, d, best) ==
    IF d >= 6 THEN best
    ELSE Then(best, PredationLoop(intent_read, target_pos, gs, d + 1,
                                  PredationStep(intent_read, target_pos, gs, d, best)))

find_predation_winner(intent_read, target_pos, gs) ==
    PredationLoop(intent_read, target_pos, gs, 0, <<NO_INDEX, 0>>)

\* words[word_i] with byte number b replaced by new_byte
SetByte(w, b, new_byte) ==
    IF b = 0 THEN <<w[1], (w[2] \div 256) * 256 + new_byte>>
    ELSE IF b = 1 THEN <<w[1], (w[2] % 256) + 256 * new_byte>>
    ELSE IF b = 2 THEN <<(w[1] \div 256) * 256 + new_byte, w[2]>>
    ELSE <<(w[1] % 256) + 256 * new_byte, w[2]>>

\* mutate_genome from byte byte_i on; the result is [g, rng]
RECURSIVE MutateLoop(_, _, _, _)
MutateLoop(rng, mutation_rate, words, byte_i) ==
    IF byte_i >= 16 THEN [g |-> words, rng |-> rng]
    ELSE Bind(pcg_next(rng), LAMBDA roll :
         Bind(IF (roll[2] % 256) < mutation_rate
              THEN [words EXCEPT ![(byte_i \div 4) + 1] =
                        SetByte(words[(byte_i \div 4) + 1], byte_i % 4, roll[2] \div 256)]
              ELSE words, LAMBDA next :
              MutateLoop(pcg_advance(rng), mutation_rate, next, byte_i + 1)))

mutate_genome_floor(rng, mutation_rate, g) == MutateLoop(rng, Max(mutation_rate, 64), g, 0)
mutate_genome(rng, mutation_rate, g) == MutateLoop(rng, mutation_rate, g, 0)

\* the energy-gain scan over the six neighbours of pos
RECURSIVE GainLoop(_, _, _, _, _, _)
GainLoop(voxel_read, p, pos, d, photosynthetic_rate, metabolic_efficiency) ==
    IF d >= 6 THEN 0
    ELSE Bind(neighbor_in_direction(pos, d, p.grid_size), LAMBDA ni :
              (IF ni = NO_INDEX THEN 0
               ELSE IF voxel_get_type(voxel_read, ToInt(ni)) = VOXEL_ENERGY_SOURCE
                    THEN (photosynthetic_rate * p.energy_from_source) \div 255
               ELSE IF voxel_get_type(voxel_read, ToInt(ni)) = VOXEL_NUTRIENT
                    THEN (metabolic_efficiency * p.energy_from_nutrient) \div 255
               ELSE 0)
              + GainLoop(voxel_read, p, pos, d + 1, photosynthetic_rate, metabolic_efficiency))

\* ------------------------------------------------------------------------
\* resolve_execute.wgsl (M6): the entry point, one thread.
\* The result records what the thread did: writes (the sequence of writes
\* into the bound write buffer), rng (the generator state it ends with),
\* case (the label of the case enumeration it took), winner (the contest
\* winner it found, a u32), avail and cost (energy before the costs are
\* subtracted, and the costs).
\* ------------------------------------------------------------------------
Result(writes, rng, case, winner, avail, cost) ==
    [writes |-> writes, rng |-> rng, case |-> case, winner |-> winner,
     avail |-> avail, cost |-> cost]

WasteOf(idx, species_id) ==
    write_voxel(idx, pack_word0(VOXEL_WASTE, 0, 0), pack_word1(0, species_id),
                ZERO, ZERO, ZERO, ZERO, ZERO, ZERO)

NutrientOf(idx, p) ==
    write_voxel(idx, pack_word0(VOXEL_NUTRIENT, 0, p.energy_from_nutrient), pack_word1(0, 0),
                ZERO, ZERO, ZERO, ZERO, ZERO, ZERO)

\* E1: no contender
ResolveSpawn(p, idx, rng) ==
    LET roll == pcg_next(rng)
    IN  Result(IF Lt32(roll, RateThreshold(p.nutrient_spawn_rate))
               THEN <<NutrientOf(idx, p)>> ELSE <<write_empty(idx)>>,
               pcg_advance(rng), "E1", NO_INDEX, 0, 0)

\* E2/E4 with the offspring carrying the species_id of its parent
ResolveOffspringParentSpecies(voxel_read, temp_read, p, idx, rng, winner_idx) ==
    LET wi == ToInt(winner_idx)
        parent_energy == voxel_get_energy(voxel_read, wi)
        split_ratio_byte == genome_get_byte(voxel_read, wi, 10)
        mutation_rate == genome_get_byte(voxel_read, wi, 3)
        offspring_energy == (parent_energy * (255 - split_ratio_byte)) \div 255
        temp_mod == compute_temp_modifier(temp_read[idx], p.temp_sensitivity)
        effective_mutation_rate == Min(ScaleU32(mutation_rate, temp_mod), 255)
    IN  Bind(mutate_genome(rng, effective_mutation_rate, voxel_read[wi].genome), LAMBDA m :
             Result(<<write_voxel(idx, pack_word0(VOXEL_PROTOCELL, 0, offspring_energy),
                                  pack_word1(0, voxel_get_species_id(voxel_read, wi)),
                                  m.g[1], m.g[2], m.g[3], m.g[4], ZERO, ZERO)>>,
                    m.rng, "E2", winner_idx, parent_energy, 0))

\* E2/E4: a REPLICATE winner, the offspring is written here
ResolveOffspring(voxel_read, temp_read, p, idx, rng, winner_idx) ==
    LET wi == ToInt(winner_idx)
        parent_energy == voxel_get_energy(voxel_read, wi)
        split_ratio_byte == genome_get_byte(voxel_read, wi, 10)
        mutation_rate == genome_get_byte(voxel_read, wi, 3)
        offspring_energy == (parent_energy * (255 - split_ratio_byte)) \div 255
        temp_mod == compute_temp_modifier(temp_read[idx], p.temp_sensitivity)
        effective_mutation_rate == Min(ScaleU32(mutation_rate, temp_mod), 255)
    IN  Bind(mutate_genome(rng, effective_mutation_rate, voxel_read[wi].genome), LAMBDA m :
        Bind(compute_species_id(m.g[1], m.g[2], m.g[3], m.g[4]), LAMBDA species_id :
             Result(<<write_voxel(idx, pack_word0(VOXEL_PROTOCELL, 0, offspring_energy),
                                  pack_word1(0, species_id),
                                  m.g[1], m.g[2], m.g[3], m.g[4], ZERO, ZERO)>>,
                    m.rng, "E2", winner_idx, parent_energy, 0)))

\* the writes of the destination thread of a surviving or dying mover
MoverWritesAndClear(idx, winner_idx, w) == <<w, write_empty(ToInt(winner_idx))>>
MoverWrites(idx, winner_idx, w) == <<w>>

\* E3/E4: a MOVE winner
ResolveMover(voxel_read, intent_read, temp_read, p, idx, rng, winner_idx) ==
    LET gs == p.grid_size
        wi == ToInt(winner_idx)
        mover_energy == voxel_get_energy(voxel_read, wi)
        mover_age == voxel_get_age(voxel_read, wi)
        mover_species == voxel_get_species_id(voxel_read, wi)
        g == voxel_read[wi].genome
        metabolic_efficiency == genome_get_byte_from_words(g[1], g[2], g[3], g[4], 0)
        metabolic_rate == genome_get_byte_from_words(g[1], g[2], g[3], g[4], 1)
        photosynthetic_rate == genome_get_byte_from_words(g[1], g[2], g[3], g[4], 9)
        cost == (p.metabolic_cost_base * (255 + metabolic_rate)) \div 255
        temp_mod_move == compute_temp_modifier(temp_read[idx], p.temp_sensitivity)
        movement_cost == p.movement_energy_cost
        new_age == Min(mover_age + 1, 65535)
    IN  Bind(find_predation_winner(intent_read, grid_coords(wi, gs), gs), LAMBDA pred_check :
        IF pred_check[1] # NO_INDEX
        THEN Result(<<write_empty(idx)>>, rng, "E3+", winner_idx, 0, 0)
        ELSE Bind(GainLoop(voxel_read, p, grid_coords(idx, gs), 0,
                           photosynthetic_rate, metabolic_efficiency), LAMBDA gain :
             Bind(ScaleU32(cost, temp_mod_move), LAMBDA effective_cost_move :
             Bind(Min(mover_energy + gain, p.max_energy), LAMBDA avail :
             Bind(SatSub(SatSub(avail, movement_cost), effective_cost_move), LAMBDA new_energy :
                  Result(MoverWrites(idx, winner_idx,
                             IF new_energy = 0
                             THEN WasteOf(idx, mover_species)
                             ELSE write_voxel(idx, pack_word0(VOXEL_PROTOCELL, 0, new_energy),
                                              pack_word1(new_age, mover_species),
                                              g[1], g[2], g[3], g[4], ZERO, ZERO)),
                         rng, "E3", winner_idx, avail, movement_cost + effective_cost_move))))))

\* case 0u: EMPTY
ResolveEmpty(voxel_read, intent_read, temp_read, p, idx, rng) ==
    Bind(find_contender_winner(intent_read, grid_coords(idx, p.grid_size), p.grid_size),
         LAMBDA winner :
         IF winner[1] = NO_INDEX THEN ResolveSpawn(p, idx, rng)
         ELSE IF winner[3] = ACTION_REPLICATE
              THEN ResolveOffspring(voxel_read, temp_read, p, idx, rng, winner[1])
         ELSE ResolveMover(voxel_read, intent_read, temp_read, p, idx, rng, winner[1]))

\* the winner a protocell finds at the voxel its intent points at, NO_INDEX
\* when the target is outside the grid
TargetWinner(intent_read, p, idx, my_intent, predation) ==
    Bind(neighbor_in_direction(grid_coords(idx, p.grid_size), intent_get_direction(my_intent),
                               p.grid_size), LAMBDA target_ni :
         IF target_ni = NO_INDEX THEN NO_INDEX
         ELSE IF predation
              THEN find_predation_winner(intent_read, grid_coords(ToInt(target_ni), p.grid_size),
                                         p.grid_size)[1]
         ELSE find_contender_winner(intent_read, grid_coords(ToInt(target_ni), p.grid_size),
                                    p.grid_size)[1])

\* winner.x == idx: the contest at the target was won by this thread
IsWinnerAny(winner_idx, idx) == winner_idx # NO_INDEX
IsWinner(winner_idx, idx) == winner_idx = U32(idx)

\* the loop that consumes the 16 mutation slots, from slot i on
RECURSIVE SkipRolls(_, _)
SkipRolls(rng, i) == IF i >= 16 THEN rng ELSE Then(rng, SkipRolls(pcg_advance(rng), i + 1))

\* the metabolism tail of the PROTOCELL case
ResolveMetabolism(voxel_read, temp_read, p, idx, rng, case, winner, work_energy) ==
    LET v == voxel_read[idx]
        g == v.genome
        metabolic_efficiency == genome_get_byte(voxel_read, idx, 0)
        metabolic_rate == genome_get_byte(voxel_read, idx, 1)
        photosynthetic_rate == genome_get_byte(voxel_read, idx, 9)
        cost == (p.metabolic_cost_base * (255 + metabolic_rate)) \div 255
        temp_mod_p == compute_temp_modifier(temp_read[idx], p.temp_sensitivity)
        new_age == Min(v.age + 1, 65535)
    IN  Bind(GainLoop(voxel_read, p, grid_coords(idx, p.grid_size), 0,
                      photosynthetic_rate, metabolic_efficiency), LAMBDA gain :
        Bind(ScaleU32(cost, temp_mod_p), LAMBDA effective_cost_p :
        Bind(Min(work_energy + gain, p.max_energy), LAMBDA avail :
        Bind(SatSub(avail, effective_cost_p), LAMBDA new_energy :
             Result(<<IF new_energy = 0
                      THEN WasteOf(idx, v.species_id)
                      ELSE write_voxel(idx, pack_word0(VOXEL_PROTOCELL, 0, new_energy),
                                       pack_word1(new_age, v.species_id),
                                       g[1], g[2], g[3], g[4], ZERO, ZERO)>>,
                    rng, case, winner, avail, effective_cost_p)))))

\* case 4u: PROTOCELL
ResolveProtocell(voxel_read, intent_read, temp_read, p, idx, rng0) ==
    LET gs == p.grid_size
        v == voxel_read[idx]
        energy == v.energy
        split_ratio_byte == genome_get_byte(voxel_read, idx, 10)
        my_intent == intent_read[idx]
        my_action == intent_get_action(my_intent)
        target_ni == neighbor_in_direction(grid_coords(idx, gs), intent_get_direction(my_intent), gs)
        prey_energy == voxel_get_energy(voxel_read, ToInt(target_ni))
        gained == (prey_energy * p.predation_energy_fraction[1]) \div p.predation_energy_fraction[2]
    IN  Bind(SkipRolls(rng0, 0), LAMBDA rng :
        Bind(find_predation_winner(intent_read, grid_coords(idx, gs), gs), LAMBDA pred_winner :
        IF pred_winner[1] # NO_INDEX
        THEN Result(<<WasteOf(idx, v.species_id)>>, rng, "PP1a", pred_winner[1], 0, 0)
        ELSE IF my_action = ACTION_DIE
        THEN Result(<<WasteOf(idx, v.species_id)>>, rng, "P1", NO_INDEX, 0, 0)
        ELSE Bind(IF my_action \in {ACTION_PREDATE, ACTION_REPLICATE, ACTION_MOVE}
                  THEN TargetWinner(intent_read, p, idx, my_intent, my_action = ACTION_PREDATE)
                  ELSE NO_INDEX, LAMBDA won :
             \* <<case, winner, work_energy>> of the action taken
             Bind(IF my_action = ACTION_PREDATE
                  THEN IF IsWinner(won, idx)
                       THEN <<"P5a", won, Min(energy + gained, p.max_energy)>>
                       ELSE <<"P5b", won, energy>>
                  ELSE IF my_action = ACTION_REPLICATE
                  THEN IF IsWinner(won, idx)
                       THEN <<"P2a", won, (energy * split_ratio_byte) \div 255>>
                       ELSE <<"P2b", won, energy>>
                  ELSE IF my_action = ACTION_MOVE
                  THEN IF IsWinner(won, idx)
                       THEN <<"P4a", won, 0>>
                       ELSE <<"P4b", won, energy>>
                  ELSE <<"P3", NO_INDEX, energy>>, LAMBDA act :
                  IF act[1] = "P4a"
                  THEN Result(<<write_empty(idx)>>, rng, "P4a", won, 0, 0)
                  ELSE ResolveMetabolism(voxel_read, temp_read, p, idx, rng,
                                         act[1], act[2], act[3])))))

\* the number of adjacent protocells, for the NUTRIENT case
RECURSIVE AdjProtocells(_, _, _, _)
AdjProtocells(voxel_read, gs, pos, d) ==
    IF d >= 6 THEN 0
    ELSE Bind(neighbor_in_direction(pos, d, gs), LAMBDA ni :
              (IF ni # NO_INDEX /\ voxel_get_type(voxel_read, ToInt(ni)) = VOXEL_PROTOCELL
               THEN 1 ELSE 0) + AdjProtocells(voxel_read, gs, pos, d + 1))

\* case 2u: NUTRIENT
ResolveNutrient(voxel_read, p, idx, rng) ==
    LET energy == voxel_get_energy(voxel_read, idx)
        new_age == Min(voxel_get_age(voxel_read, idx) + 1, 65535)
    IN  Bind(AdjProtocells(voxel_read, p.grid_size, grid_coords(idx, p.grid_size), 0),
             LAMBDA adj_protocells :
        Bind(SatSub(energy, adj_protocells), LAMBDA new_energy :
             Result(<<IF new_energy = 0 THEN write_empty(idx)
                      ELSE write_voxel(idx, pack_word0(VOXEL_NUTRIENT, 0, new_energy),
                                       pack_word1(new_age, 0),
                                       ZERO, ZERO, ZERO, ZERO, ZERO, ZERO)>>,
                    rng, IF new_energy = 0 THEN "N3" ELSE "N1", NO_INDEX, 0, 0)))

ResolveWasteLate(voxel_read, p, idx, rng) ==
    LET species_id == voxel_get_species_id(voxel_read, idx)
        new_age == Min(voxel_get_age(voxel_read, idx) + 1, 65535)
        roll == pcg_next(rng)
    IN  IF new_age > p.waste_decay_ticks
        THEN Result(IF Lt32(roll, RateThreshold(p.nutrient_recycle_rate))
                    THEN <<NutrientOf(idx, p)>> ELSE <<write_empty(idx)>>,
                    pcg_advance(rng), "W2", NO_INDEX, 0, 0)
        ELSE Result(<<write_voxel(idx, pack_word0(VOXEL_WASTE, 0, 0),
                                  pack_word1(new_age, species_id),
                                  ZERO, ZERO, ZERO, ZERO, ZERO, ZERO)>>,
                    rng, "W1", NO_INDEX, 0, 0)

\* case 5u: WASTE
ResolveWaste(voxel_read, p, idx, rng) ==
    LET species_id == voxel_get_species_id(voxel_read, idx)
        new_age == Min(voxel_get_age(voxel_read, idx) + 1, 65535)
        roll == pcg_next(rng)
    IN  IF new_age >= p.waste_decay_ticks
        THEN Result(IF Lt32(roll, RateThreshold(p.nutrient_recycle_rate))
                    THEN <<NutrientOf(idx, p)>> ELSE <<write_empty(idx)>>,
                    pcg_advance(rng), "W2", NO_INDEX, 0, 0)
        ELSE Result(<<write_voxel(idx, pack_word0(VOXEL_WASTE, 0, 0),
                                  pack_word1(new_age, species_id),
                                  ZERO, ZERO, ZERO, ZERO, ZERO, ZERO)>>,
                    rng, "W1", NO_INDEX, 0, 0)

resolve_execute_main(voxel_read, intent_read, temp_read, p, idx) ==
    LET vtype == voxel_get_type(voxel_read, idx)
    IN  Bind(prng_seed(idx, p.tick_count, p.grid_size, 2), LAMBDA rng :
        IF vtype = VOXEL_EMPTY
        THEN ResolveEmpty(voxel_read, intent_read, temp_read, p, idx, rng)
        ELSE IF vtype = VOXEL_PROTOCELL
        THEN ResolveProtocell(voxel_read, intent_read, temp_read, p, idx, rng)
        ELSE IF vtype = VOXEL_NUTRIENT THEN ResolveNutrient(voxel_read, p, idx, rng)
        ELSE IF vtype = VOXEL_WASTE THEN ResolveWaste(voxel_read, p, idx, rng)
        ELSE Result(<<copy_voxel(voxel_read, idx)>>, rng, "X1", NO_INDEX, 0, 0))

\* ------------------------------------------------------------------------
\* intent_declaration.wgsl: the entry point, one thread.  The result is
\* [writes, rng]: the writes into intent_buf and the final generator state.
\* ------------------------------------------------------------------------
\* the five rolls every protocell draws, and the state they leave
DrawRollsLazy(rng) ==
    Bind(pcg_advance(rng), LAMBDA s1 :
    Bind(pcg_advance(s1), LAMBDA s2 :
    Bind(pcg_advance(s2), LAMBDA s3 :
         [movement_decision |-> pcg_next(rng), movement_direction |-> pcg_next(s1),
          predation_target |-> ZERO, replication_target |-> pcg_next(s2),
          bid |-> pcg_next(s3), rng |-> pcg_advance(s3)])))
DrawRolls(rng) ==
    Bind(pcg_advance(rng), LAMBDA s1 :
    Bind(pcg_advance(s1), LAMBDA s2 :
    Bind(pcg_advance(s2), LAMBDA s3 :
    Bind(pcg_advance(s3), LAMBDA s4 :
         [movement_decision |-> pcg_next(rng), movement_direction |-> pcg_next(s1),
          predation_target |-> pcg_next(s2), replication_target |-> pcg_next(s3),
          bid |-> pcg_next(s4), rng |-> pcg_advance(s4)]))))

\* the neighbour scan: the sequence of directions whose neighbour is Empty
RECURSIVE EmptyDirsOrWalls(_, _, _, _)
EmptyDirsOrWalls(voxel_read, gs, pos, d) ==
    IF d >= 6 THEN <<>>
    ELSE Bind(neighbor_in_direction(pos, d, gs), LAMBDA ni :
              (IF ni # NO_INDEX /\ voxel_get_type(voxel_read, ToInt(ni)) \in {VOXEL_EMPTY, VOXEL_WALL}
               THEN <<d>> ELSE <<>>) \o EmptyDirsOrWalls(voxel_read, gs, pos, d + 1))

RECURSIVE EmptyDirs(_, _, _, _)
EmptyDirs(voxel_read, gs, pos, d) ==
    IF d >= 6 THEN <<>>
    ELSE Bind(neighbor_in_direction(pos, d, gs), LAMBDA ni :
              (IF ni # NO_INDEX /\ voxel_get_type(voxel_read, ToInt(ni)) = VOXEL_EMPTY
               THEN <<d>> ELSE <<>>) \o EmptyDirs(voxel_read, gs, pos, d + 1))

\* the neighbour scan: the set of directions whose neighbour is food
FoodDirMask(voxel_read, gs, pos) ==
    {d \in Dirs : Bind(neighbor_in_direction(pos, d, gs), LAMBDA ni :
                       /\ ni # NO_INDEX
                       /\ voxel_get_type(voxel_read, ToInt(ni))
                              \in {VOXEL_NUTRIENT, VOXEL_ENERGY_SOURCE})}

\* the food directions themselves taken as the preferred directions
RECURSIVE FoodDirsOnly(_, _, _)
FoodDirsOnly(empty_dirs, food_dir_mask, e) ==
    IF e > 6 THEN <<>>
    ELSE (IF (e - 1) \in food_dir_mask THEN <<e - 1>> ELSE <<>>)
         \o FoodDirsOnly(empty_dirs, food_dir_mask, e + 1)

\* the empty directions that are also food directions, in scan order
RECURSIVE FoodEmptyDirs(_, _, _)
FoodEmptyDirs(empty_dirs, food_dir_mask, e) ==
    IF e > Len(empty_dirs) THEN <<>>
    ELSE (IF empty_dirs[e] \in food_dir_mask THEN <<empty_dirs[e]>> ELSE <<>>)
         \o FoodEmptyDirs(empty_dirs, food_dir_mask, e + 1)

intent_declaration_main(voxel_read, p, idx) ==
    LET gs == p.grid_size
        gid == grid_coords(idx, gs)
        vtype == voxel_get_type(voxel_read, idx)
        energy == voxel_get_energy(voxel_read, idx)
        replication_threshold_byte == genome_get_byte(voxel_read, idx, 2)
        threshold == (p.replication_energy_min * replication_threshold_byte) \div 255
        movement_bias == genome_get_byte(voxel_read, idx, 4)
        chemotaxis_strength == genome_get_byte(voxel_read, idx, 5)
    IN  IF vtype # VOXEL_PROTOCELL
        THEN [writes |-> << <<idx, ZERO>> >>, rng |-> ZERO]
        ELSE
        Bind(DrawRolls(prng_seed(idx, p.tick_count, gs, 1)), LAMBDA r :
        IF energy = 0
        THEN [writes |-> << <<idx, intent_encode(ACTION_DIE, DIR_SELF, 0)>> >>, rng |-> r.rng]
        ELSE
        Bind(EmptyDirs(voxel_read, gs, gid, 0), LAMBDA empty_dirs :
        Bind(FoodDirMask(voxel_read, gs, gid), LAMBDA food_dir_mask :
        Bind(Mod32(r.bid, energy + 1), LAMBDA bid :
        IF energy > threshold /\ Len(empty_dirs) > 0
        THEN [writes |-> << <<idx, intent_encode(ACTION_REPLICATE,
                                    empty_dirs[Mod32(r.replication_target, Len(empty_dirs)) + 1],
                                    bid)>> >>,
              rng |-> r.rng]
        ELSE IF Mod32(r.movement_decision, 256) < movement_bias /\ Len(empty_dirs) > 0
        THEN Bind(IF food_dir_mask # {} /\ chemotaxis_strength > 0
                  THEN FoodEmptyDirs(empty_dirs, food_dir_mask, 1) ELSE <<>>,
                  LAMBDA food_empty_dirs :
             Bind(IF Len(food_empty_dirs) > 0
                     /\ Mod32(r.movement_direction, 255) < chemotaxis_strength
                  THEN food_empty_dirs[Mod32(r.movement_direction, Len(food_empty_dirs)) + 1]
                  ELSE empty_dirs[Mod32(r.movement_direction, Len(empty_dirs)) + 1],
                  LAMBDA chosen_dir :
                  [writes |-> << <<idx, intent_encode(ACTION_MOVE, chosen_dir, bid)>> >>,
                   rng |-> r.rng]))
        ELSE [writes |-> << <<idx, intent_encode(ACTION_IDLE, DIR_SELF, 0)>> >>,
              rng |-> r.rng]))))

\* ------------------------------------------------------------------------
\* temperature_diffusion.wgsl: the entry point, one thread.  The result is
\* the sequence of its writes into the bound temperature write buffer.
\* ------------------------------------------------------------------------
\* <<sum, count>> over the in-grid neighbours of pos, Walls included
RECURSIVE NeighborTempsWithWalls(_, _, _, _, _)
NeighborTempsWithWalls(temp_read, voxel_read, gs, pos, d) ==
    IF d >= 6 THEN <<0, 0>>
    ELSE Bind(neighbor_in_direction(pos, d, gs), LAMBDA ni :
         Bind(NeighborTempsWithWalls(temp_read, voxel_read, gs, pos, d + 1), LAMBDA rest :
              IF ni = NO_INDEX THEN rest
              ELSE <<rest[1] + temp_read[ToInt(ni)], rest[2] + 1>>))

\* <<sum, count>> over the in-grid, non-wall neighbours of pos
RECURSIVE NeighborTemps(_, _, _, _, _)
NeighborTemps(temp_read, voxel_read, gs, pos, d) ==
    IF d >= 6 THEN <<0, 0>>
    ELSE Bind(neighbor_in_direction(pos, d, gs), LAMBDA ni :
         Bind(NeighborTemps(temp_read, voxel_read, gs, pos, d + 1), LAMBDA rest :
              IF ni = NO_INDEX THEN rest
              ELSE IF voxel_get_type(voxel_read, ToInt(ni)) = VOXEL_WALL THEN rest
              ELSE <<rest[1] + temp_read[ToInt(ni)], rest[2] + 1>>))

\* clamp(t, 0.0, 1.0)
clamp(t, lo, hi) == Max(lo, Min(t, hi))

\* the Dirichlet value a heat source holds
HeatValueHot == TEMP_ONE + 1
HeatValue == TEMP_ONE

temperature_diffusion_main(temp_read, voxel_read, p, idx) ==
    LET gs == p.grid_size
        vtype == voxel_get_type(voxel_read, idx)
        t_old == temp_read[idx]
    IN  IF vtype = VOXEL_WALL THEN << <<idx, t_old>> >>
        ELSE IF vtype = VOXEL_HEAT_SOURCE THEN << <<idx, HeatValue>> >>
        ELSE IF vtype = VOXEL_COLD_SOURCE THEN << <<idx, 0>> >>
        ELSE Bind(NeighborTemps(temp_read, voxel_read, gs, grid_coords(idx, gs), 0), LAMBDA nb :
             \* t_old + diffusion_rate * (sum / count - t_old), rounded down
             Bind(p.diffusion_rate[1] * (nb[1] - nb[2] * t_old), LAMBDA num :
             Bind(p.diffusion_rate[2] * nb[2], LAMBDA den :
             Bind(IF nb[2] > 0 THEN t_old + ((num - (num % den)) \div den) ELSE t_old,
                  LAMBDA t_new :
                  << <<idx, clamp(t_new, 0, TEMP_ONE)>> >>))))

\* ------------------------------------------------------------------------
\* apply_commands.wgsl: the entry point, one thread (dense mode).  A command
\* is the record [type, x, y, z, radius, param_0] of the words the kernel
\* reads; command_buf is the sequence of the uploaded commands.  The result
\* is the sequence of the thread's in-place writes, in program order.
\* ------------------------------------------------------------------------
CMD_NOOP == 0
CMD_PLACE_VOXEL == 1
CMD_REMOVE_VOXEL == 2
CMD_SEED_PROTOCELLS == 3
CMD_APPLY_TOXIN == 4
MAX_COMMANDS == 64

\* the in-place write landing in the voxel after the thread's own
write_voxel_inplace_neighbour(idx, w0, w1, w2, w3, w4, w5, w6, w7) ==
    <<(idx + 1) % NumVoxels, MkVoxel(w0.type, w0.flags, w0.energy, w1.age, w1.species_id,
                                     <<w2, w3, w4, w5>>, <<w6, w7>>)>>

write_voxel_inplace(idx, w0, w1, w2, w3, w4, w5, w6, w7) ==
    <<idx, MkVoxel(w0.type, w0.flags, w0.energy, w1.age, w1.species_id,
                   <<w2, w3, w4, w5>>, <<w6, w7>>)>>

\* the type read for the Empty test taken to be Empty
read_voxel_type_rw_empty(voxel_buf, idx) == VOXEL_EMPTY
read_voxel_type_rw_next(voxel_buf, idx) == voxel_buf[(idx + 1) % NumVoxels].type
read_voxel_type_rw(voxel_buf, idx) == voxel_buf[idx].type

Abs(n) == IF n < 0 THEN -n ELSE n

\* the test of CMD_APPLY_TOXIN on a protocell
BelowOrAtThreshold(toxin_resistance, cmd_param_0) == toxin_resistance <= cmd_param_0
BelowThreshold(toxin_resistance, cmd_param_0) == toxin_resistance < cmd_param_0

\* the body of the command loop for one command; voxel_buf is the buffer
\* as the thread sees it when the command is reached
ApplyCommand(voxel_buf, cmd, p, idx) ==
    LET gs == p.grid_size
        cur == voxel_buf[idx]
        my_pos == grid_coords(idx, gs)
        dist == Max(Abs(my_pos[1] - cmd.x), Max(Abs(my_pos[2] - cmd.y), Abs(my_pos[3] - cmd.z)))
        current_type == read_voxel_type_rw(voxel_buf, idx)
        vtype == cmd.param_0
        place_energy == IF vtype = VOXEL_ENERGY_SOURCE THEN 500
                        ELSE IF vtype = VOXEL_NUTRIENT THEN p.energy_from_nutrient
                        ELSE IF vtype = VOXEL_HEAT_SOURCE \/ vtype = VOXEL_COLD_SOURCE THEN 1000
                        ELSE 0
        toxin_resistance == genome_get_byte_from_words(cur.genome[1], cur.genome[2],
                                                       cur.genome[3], cur.genome[4], 6)
    IN  IF cmd.type = CMD_NOOP THEN <<>>
        ELSE IF dist > cmd.radius THEN <<>>
        ELSE IF cmd.type = CMD_PLACE_VOXEL
        THEN <<write_voxel_inplace(idx, pack_word0(vtype, 0, place_energy), pack_word1(0, 0),
                                   ZERO, ZERO, ZERO, ZERO, ZERO, ZERO)>>
        ELSE IF cmd.type = CMD_REMOVE_VOXEL
        THEN <<write_voxel_inplace(idx, pack_word0(0, 0, 0), pack_word1(0, 0),
                                   ZERO, ZERO, ZERO, ZERO, ZERO, ZERO)>>
        ELSE IF cmd.type = CMD_SEED_PROTOCELLS
        THEN IF current_type = VOXEL_EMPTY
             THEN Bind(prng_seed(idx, p.tick_count, gs, 3), LAMBDA rng :
                  Bind(pcg_next(rng), LAMBDA g0 :
                  Bind(pcg_advance(rng), LAMBDA s1 :
                  Bind(pcg_next(s1), LAMBDA g1 :
                  Bind(pcg_advance(s1), LAMBDA s2 :
                  Bind(pcg_next(s2), LAMBDA g2 :
                  Bind(pcg_advance(s2), LAMBDA s3 :
                  Bind(pcg_next(s3), LAMBDA g3 :
                  Bind(compute_species_id(g0, g1, g2, g3), LAMBDA species_id :
                       <<write_voxel_inplace(idx,
                             pack_word0(VOXEL_PROTOCELL, 0, Min(cmd.param_0, 65535)),
                             pack_word1(0, species_id),
                             g0, g1, g2, g3, ZERO, ZERO)>>)))))))))
             ELSE <<>>
        ELSE IF cmd.type = CMD_APPLY_TOXIN
        THEN IF current_type = VOXEL_PROTOCELL /\ BelowThreshold(toxin_resistance, cmd.param_0)
             THEN <<write_voxel_inplace(idx, pack_word0(VOXEL_WASTE, 0, 0),
                                        pack_word1(0, cur.species_id),
                                        ZERO, ZERO, ZERO, ZERO, ZERO, ZERO)>>
             ELSE <<>>
        ELSE <<>>

\* the iterations lo .. hi of the command loop, from the buffer and the
\* writes that the earlier iterations left in st; the range is halved so
\* that the evaluation of 64 iterations stays shallow
RECURSIVE CommandRange(_, _, _, _, _, _)
CommandRange(st, command_buf, p, idx, lo, hi) ==
    IF lo > hi THEN st
    ELSE IF lo = hi
    THEN Bind(ApplyCommand(st.buf, command_buf[lo], p, idx), LAMBDA w :
              [buf |-> IF w = <<>> THEN st.buf ELSE [st.buf EXCEPT ![w[1][1]] = w[1][2]],
               writes |-> st.writes \o w])
    ELSE Bind(CommandRange(st, command_buf, p, idx, lo, (lo + hi) \div 2), LAMBDA half :
              CommandRange(half, command_buf, p, idx, (lo + hi) \div 2 + 1, hi))

\* the command loop from command c on
CommandLoop(voxel_buf, command_buf, command_count, p, idx, c) ==
    CommandRange([buf |-> voxel_buf, writes |-> <<>>], command_buf, p, idx, c,
                 command_count).writes

\* the command loop without the limit of 64 commands
apply_commands_uncapped(voxel_buf, command_buf, p, idx) ==
    CommandLoop(voxel_buf, command_buf, Len(command_buf), p, idx, 1)

apply_commands_main(voxel_buf, command_buf, p, idx) ==
    CommandLoop(voxel_buf, command_buf, Min(Len(command_buf), MAX_COMMANDS), p, idx, 1)

\* ------------------------------------------------------------------------
\* stats_reduction.wgsl: what one grid-stride iteration adds to the totals
\* ------------------------------------------------------------------------
stats_reduction_main(voxel_buf, stats_buf, vi) ==
    IF voxel_get_type(voxel_buf, vi) = VOXEL_PROTOCELL
    THEN [population |-> stats_buf.population + 1,
          total_energy |-> stats_buf.total_energy + voxel_get_energy(voxel_buf, vi),
          max_energy |-> Max(stats_buf.max_energy, voxel_get_energy(voxel_buf, vi))]
    ELSE stats_buf

ZERO_STATS == [population |-> 0, total_energy |-> 0, max_energy |-> 0]

\* ------------------------------------------------------------------------
\* Host-written values: genomes, voxels, parameters
\* ------------------------------------------------------------------------
\* the genome with the given bytes 0-6, 9 and 10, the other bytes 0
Genome(b0, b1, b2, b3, b4, b5, b6, b9, b10) ==
    << <<b2 + 256 * b3, b0 + 256 * b1>>, <<b6, b4 + 256 * b5>>, <<b10, 256 * b9>>, ZERO >>

Proto(energy, age, g) ==
    MkVoxel(VOXEL_PROTOCELL, 0, energy, age, compute_species_id(g[1], g[2], g[3], g[4]),
            g, <<ZERO, ZERO>>)

Plain(vtype, energy, age) == MkVoxel(vtype, 0, energy, age, 0, ZERO_GENOME, <<ZERO, ZERO>>)

\* the SimParams presets the host uploads (slider values)
Preset(k) ==
    [grid_size |-> GridSize, tick_count |-> 0,
     nutrient_spawn_rate |-> IF k = 3 THEN 655 ELSE 0,
     waste_decay_ticks |-> 10,
     nutrient_recycle_rate |-> IF k = 2 THEN 0 ELSE W16,
     movement_energy_cost |-> IF k = 1 THEN 5 ELSE 20,
     metabolic_cost_base |-> IF k = 3 THEN 0 ELSE 2,
     replication_energy_min |-> 50,
     energy_from_nutrient |-> IF k = 2 THEN 500 ELSE 50,
     energy_from_source |-> 10,
     diffusion_rate |-> IF k = 3 THEN <<0, 1>> ELSE IF k = 2 THEN <<1, 4>> ELSE <<1, 8>>,
     temp_sensitivity |-> k - 1,
     predation_energy_fraction |-> <<1, 2>>,
     max_energy |-> IF k = 2 THEN 100 ELSE 1000]

Presets == 1 .. 3

\* genomes: a replicator (replication threshold 0, even split, mutation
\* rate b3), a mover (threshold 255, movement bias 255), an idler
Replicator(b3) == Genome(128, 0, 0, b3, 0, 0, 200, 128, 128)
Mover == Genome(0, 0, 255, 0, 255, 128, 0, 0, 128)
Idler == Genome(255, 255, 255, 0, 0, 0, 100, 255, 128)

\* a mover with chemotaxis_strength 255
Forager == Genome(0, 0, 255, 0, 255, 255, 0, 0, 128)

\* a replicator without mutation whose four genome words xor to 0
ZeroHash == Genome(128, 0, 0, 0, 128, 128, 128, 128, 128)

\* the genome g with predation_capability b7 and predation_aggression b8
WithPredation(g, b7, b8) ==
    <<g[1], <<g[2][1] + 256 * b7, g[2][2]>>, <<g[3][1], g[3][2] + b8>>, g[4]>>

\* a predator that takes any neighbour below energy 255, a predator that
\* takes only neighbours below energy 50, and a protocell that cannot predate
Predator == WithPredation(Replicator(0), 200, 255)
Cautious == WithPredation(Idler, 200, 50)
NonPredator == WithPredation(Mover, 0, 255)

Empty == Plain(VOXEL_EMPTY, 0, 0)
Wall == Plain(VOXEL_WALL, 0, 0)

\* The initial contents of the 2 x 2 x 2 corner of the grid, cell
\* x + 2y + 4z at position k + 1; ea and eb are protocell energies.
Layout(l, ea, eb, p) ==
    LET source == Plain(VOXEL_ENERGY_SOURCE, Min(500, p.max_energy), 0)
        nutrient == Plain(VOXEL_NUTRIENT, Min(3, p.max_energy), 0)
    IN  IF l = 1 THEN <<Empty, Proto(ea, 0, Replicator(0)), Proto(eb, 3, Replicator(255)), Wall,
                        Wall, Wall, Wall, Empty>>
        ELSE IF l = 2 THEN <<Empty, Proto(ea, 0, Mover), Proto(eb, 65535, Mover), Wall,
                             nutrient, Wall, Wall, Wall>>
        ELSE IF l = 3 THEN <<Empty, Proto(ea, 0, Replicator(128)), Proto(eb, 1, Mover), Wall,
                             Proto(ea, 2, Replicator(0)), source, Wall, Wall>>
        ELSE IF l = 4 THEN <<Proto(ea, 7, Idler), nutrient, source, Plain(VOXEL_HEAT_SOURCE, 0, 0),
                             Plain(VOXEL_WASTE, 0, 9), Plain(VOXEL_COLD_SOURCE, 0, 0), Empty, Wall>>
        ELSE IF l = 5 THEN <<Empty, Empty, Proto(eb, 0, Idler), Empty,
                             Plain(VOXEL_WASTE, 0, 8), Empty, Empty, Wall>>
        ELSE IF l = 6 THEN <<Proto(0, 5, Idler), Proto(ea, 0, Idler), Empty, Proto(eb, 0, Mover),
                             Wall, nutrient, Proto(ea, 1, Mover), Empty>>
        ELSE IF l = 7 THEN <<Proto(ea, 0, Predator), Proto(eb, 4, Replicator(0)), Empty, Wall,
                             Proto(eb, 2, NonPredator), Wall, Proto(60, 0, Cautious), Wall>>
        ELSE IF l = 8 THEN <<Empty, Proto(ea, 0, ZeroHash), Wall, Wall, Wall, Wall, Wall, Wall>>
        ELSE <<Proto(ea, 0, Forager), nutrient, Empty, source,
               Empty, Empty, Empty, Proto(eb, 0, Forager)>>

Layouts == 1 .. 9

\* the initial temperature of the corner cells; the rest is at ambient
CornerTemps(t) ==
    IF t = 1 THEN <<0, TEMP_ONE, 2, 1, 3, 2, TEMP_ONE, 0>>
    ELSE IF t = 3 THEN <<TEMP_ONE, 3, TEMP_ONE, 3, TEMP_ONE, 3, TEMP_ONE, 3>>
    ELSE IF t = 4 THEN <<2, 2, TEMP_ONE, 1, TEMP_ONE, 2, 0, 1>>
    ELSE <<2, 2, 2, 2, 2, 2, 2, 2>>

InCorner(idx) == LET c == grid_coords(idx, GridSize) IN c[1] < 2 /\ c[2] < 2 /\ c[3] < 2
CornerCell(idx) == LET c == grid_coords(idx, GridSize) IN c[1] + 2 * c[2] + 4 * c[3] + 1

\* player commands, one batch per tick
Cmd(type, x, y, z, radius, param_0) ==
    [type |-> type, x |-> x, y |-> y, z |-> z, radius |-> radius, param_0 |-> param_0]

Batches(b) ==
    IF b = 1
    THEN << <<Cmd(CMD_SEED_PROTOCELLS, 0, 0, 0, 0, 60), Cmd(CMD_NOOP, 0, 0, 0, 9, 0),
              Cmd(CMD_APPLY_TOXIN, 1, 0, 0, 1, 128)>>,
            <<Cmd(CMD_REMOVE_VOXEL, 1, 1, 0, 0, 0)>> >>
    ELSE IF b = 2
    THEN << <<Cmd(CMD_PLACE_VOXEL, 0, 0, 0, 0, VOXEL_ENERGY_SOURCE),
              Cmd(CMD_PLACE_VOXEL, 0, 1, 1, 0, VOXEL_NUTRIENT),
              Cmd(CMD_PLACE_VOXEL, 0, 0, 0, 0, VOXEL_WALL), Cmd(9, 0, 0, 0, 9, 0)>>,
            <<Cmd(CMD_SEED_PROTOCELLS, 1, 1, 1, 1, 100)>> >>
    ELSE IF b = 3
    THEN << <<Cmd(CMD_PLACE_VOXEL, 1, 1, 0, 0, VOXEL_HEAT_SOURCE),
              Cmd(CMD_PLACE_VOXEL, 1, 0, 1, 0, VOXEL_COLD_SOURCE)>>,
            <<Cmd(CMD_APPLY_TOXIN, 0, 0, 0, 1, 255)>> >>
    ELSE IF b = 4
    THEN << [c \in 1 .. MAX_COMMANDS + 1 |->
                IF c = 1 THEN Cmd(CMD_PLACE_VOXEL, 0, 0, 0, 1, VOXEL_NUTRIENT)
                ELSE IF c = 2 THEN Cmd(CMD_REMOVE_VOXEL, 1, 1, 1, 0, 0)
                ELSE IF c = MAX_COMMANDS THEN Cmd(CMD_PLACE_VOXEL, 1, 0, 1, 0, VOXEL_ENERGY_SOURCE)
                ELSE IF c = MAX_COMMANDS + 1 THEN Cmd(CMD_PLACE_VOXEL, 0, 0, 0, 1, VOXEL_WALL)
                ELSE Cmd(IF c % 2 = 0 THEN CMD_NOOP ELSE 5 + c, 0, 0, 0, 9, 0)] >>
    ELSE IF b = 5
    THEN << <<Cmd(CMD_REMOVE_VOXEL, 1, 0, 1, 0, 0), Cmd(CMD_APPLY_TOXIN, 0, 0, 0, 1, 200)>>,
            <<Cmd(CMD_APPLY_TOXIN, 0, 0, 0, 0, 0)>> >>
    ELSE << >>

\* The initial situations: contests of two or three protocells over one
\* Empty voxel with energies that make the bids differ, tie and vanish
\* (layouts 1-3), mixed environments under player commands (4-6), and
\* protocells with and without predation capability next to each other (7),
\* a lone replicator whose genome hashes to 0 (8), a batch of 65 commands,
\* toxin at the resistance of some of the protocells it covers, and movers
\* with full chemotaxis between food and Empty voxels (9).
Scenarios ==
    ([layout : 1 .. 3, ea : {1, 40, 50}, eb : {1, 4, 40, 50}, preset : {1, 2},
      batch : {0}, temps : {1}])
    \cup
    ([layout : 4 .. 7, ea : {1}, eb : {1}, preset : Presets, batch : 0 .. 3, temps : {1}])
    \cup
    ([layout : 4 .. 7, ea : {50}, eb : {50}, preset : Presets, batch : 0 .. 3, temps : {2}])
    \cup
    ([layout : {7}, ea : {50}, eb : {50}, preset : Presets, batch : {0}, temps : {3}])
    \cup
    ([layout : {8}, ea : {50, 400}, eb : {50}, preset : {1}, batch : {0}, temps : {2}])
    \cup
    ([layout : {5}, ea : {50}, eb : {50}, preset : {1}, batch : {4}, temps : {2}])
    \cup
    ([layout : {7}, ea : {50}, eb : {50}, preset : {1}, batch : {5}, temps : {2}])
    \cup
    ([layout : {9}, ea : {40, 50}, eb : {50}, preset : {1, 2}, batch : {0}, temps : {2}])
    \cup
    ([layout : {4}, ea : {50}, eb : {50}, preset : {2}, batch : {0}, temps : {4}])

\* ------------------------------------------------------------------------
\* The engine state
\* ------------------------------------------------------------------------
VARIABLES
    voxel_buf,      \* the two voxel buffers, by parity slot
    temp_buf,       \* the two temperature buffers, by parity slot
    intent_buf,     \* the intent buffer
    command_buf,    \* the commands uploaded for the current tick
    pending,        \* the command batches of the coming ticks
    params,         \* the uniform block
    tick_count,     \* host: number of completed ticks
    parity,         \* host: the parity flag
    pc,             \* host: the step of the tick being encoded
    done,           \* the threads of the current dispatch that have run
    free,           \* whether the GPU may run threads out of index order
    wlog,           \* per output slot, the threads that wrote it in the current dispatch
    irng,           \* per thread, the generator state at the end of intent_declaration
    tinfo,          \* per thread, what resolve_execute did
    acc,            \* the buffer accesses of the current tick
    snap,           \* the read set and the intents as they were when the tick began
    stats_buf,      \* the totals of the stats buffer
    host_pc,        \* host: "startup", "idle" (between frames), "frame" or "unsupported"
    startup,        \* host: the device, the tier being allocated, the fallbacks and errors
    sched,          \* host: the tick scheduler
    readback,       \* host: the asynchronous readback of the stats staging buffer
    probe,          \* data-layout operations: the last operation applied, its input and output
    wg,             \* stats_reduction: workgroup memory by workgroup, and each thread's position
    ui              \* web/ui.js: the tool palette, the shortcut overlay, the inspector, the bridge

hostvars == <<host_pc, startup, sched, readback>>

vars == <<voxel_buf, temp_buf, intent_buf, command_buf, pending, params, tick_count, parity,
          pc, done, free, wlog, irng, tinfo, acc, snap, stats_buf, hostvars, probe, wg, ui>>

\* the host while the dispatches of a tick run: a frame of a running engine
HostInTick ==
    /\ host_pc = "frame"
    /\ startup = [device |-> {4}, tier |-> 4, fallbacks |-> << >>, errors |-> 0]
    /\ sched = [rate |-> 60, accumulator |-> 0, paused |-> FALSE, step |-> FALSE, frame_ticks |-> 0]
    /\ readback = [state |-> "Idle", maps |-> 0]
    /\ probe = [op |-> "none"]

\* stats_reduction is not running
NoWorkgroups == [mem |-> << >>, at |-> << >>]

\* web/ui.js when the page has loaded: no tool is active, the overlay and the
\* inspector are hidden, main.js has not installed window._bridge yet and
\* nothing has been passed to set_tool
UILoaded == [activeTool |-> 0, overlay |-> FALSE, inspector |-> FALSE, bridge |-> FALSE,
             set_tool |-> {}]

NO_INFO == [case |-> "", winner |-> NO_INDEX, avail |-> 0, cost |-> 0, rng |-> ZERO]

Init ==
    \E sc \in Scenarios :
        LET p == Preset(sc.preset)
            cells == Layout(sc.layout, sc.ea, sc.eb, p)
        IN  /\ voxel_buf = [s \in 0 .. 1 |->
                               [i \in Idx |-> IF s = 0
                                              THEN IF InCorner(i) THEN cells[CornerCell(i)] ELSE Wall
                                              ELSE Empty]]
            /\ temp_buf = [s \in 0 .. 1 |->
                              [i \in Idx |-> IF s = 0
                                             THEN IF InCorner(i) THEN CornerTemps(sc.temps)[CornerCell(i)]
                                                  ELSE 2
                                             ELSE 0]]
            /\ intent_buf = [i \in Idx |-> ZERO]
            /\ command_buf = << >>
            /\ pending = Batches(sc.batch)
            /\ params = p
            /\ tick_count = 0
            /\ parity = 0
            /\ pc = "host"
            /\ done = {}
            /\ free = (sc.preset = 1)
            /\ wlog = [i \in Idx |-> << >>]
            /\ irng = [i \in Idx |-> ZERO]
            /\ tinfo = [i \in Idx |-> NO_INFO]
            /\ acc = {}
            /\ snap = [voxels |-> voxel_buf[0], temps |-> temp_buf[0], intents |-> intent_buf]
            /\ stats_buf = ZERO_STATS
            /\ HostInTick
            /\ wg = NoWorkgroups
            /\ ui = UILoaded

\* ------------------------------------------------------------------------
\* Host: the bind sets by parity, and the steps of a tick
\* ------------------------------------------------------------------------
read_slot(par) == par
write_slot_same(par) == par
write_slot(par) == 1 - par

Access(kernel, buffer, slot, mode) ==
    [kernel |-> kernel, buffer |-> buffer, slot |-> slot, mode |-> mode]

\* steps 1-3 of the tick: upload the commands and the params, clear intents;
\* limit is the number of ticks the run is followed for
BeginTickWithin(limit) ==
    /\ pc = "host"
    /\ tick_count < limit
    /\ command_buf' = IF pending = << >> THEN << >> ELSE Head(pending)
    /\ pending' = IF pending = << >> THEN << >> ELSE Tail(pending)
    /\ params' = [params EXCEPT !.tick_count = tick_count]
    /\ intent_buf' = [i \in Idx |-> ZERO]
    /\ pc' = "apply_commands"
    /\ done' = {}
    /\ wlog' = [i \in Idx |-> << >>]
    /\ irng' = [i \in Idx |-> ZERO]
    /\ tinfo' = [i \in Idx |-> NO_INFO]
    /\ acc' = {}
    /\ snap' = [voxels |-> voxel_buf[read_slot(parity)], temps |-> temp_buf[read_slot(parity)],
                intents |-> intent_buf]
    /\ UNCHANGED <<voxel_buf, temp_buf, tick_count, parity, free, stats_buf>>
    /\ UNCHANGED <<hostvars, probe, wg, ui>>

BeginTick == BeginTickWithin(MaxTicks)

NextDispatchSwapped(k) ==
    IF k = "apply_commands" THEN "intent_declaration"
    ELSE IF k = "intent_declaration" THEN "temperature_diffusion"
    ELSE IF k = "temperature_diffusion" THEN "resolve_execute"
    ELSE IF k = "resolve_execute" THEN "stats_reduction"
    ELSE "flip"

NextDispatch(k) ==
    IF k = "apply_commands" THEN "temperature_diffusion"
    ELSE IF k = "temperature_diffusion" THEN "intent_declaration"
    ELSE IF k = "intent_declaration" THEN "resolve_execute"
    ELSE IF k = "resolve_execute" THEN "stats_reduction"
    ELSE "flip"

Kernels == {"apply_commands", "temperature_diffusion", "intent_declaration",
            "resolve_execute", "stats_reduction"}

\* a dispatch has completed: the next one of the command encoder starts
EndDispatch ==
    /\ pc \in Kernels
    /\ done = Idx
    /\ pc' = NextDispatch(pc)
    /\ done' = {}
    /\ wlog' = [i \in Idx |-> << >>]
    /\ stats_buf' = IF pc = "resolve_execute" THEN ZERO_STATS ELSE stats_buf
    /\ UNCHANGED <<voxel_buf, temp_buf, intent_buf, command_buf, pending, params, tick_count,
                   parity, free, irng, tinfo, acc, snap>>
    /\ UNCHANGED <<hostvars, probe, wg, ui>>

\* step 9 of the tick
FlipParity ==
    /\ pc = "flip"
    /\ parity' = 1 - parity
    /\ tick_count' = tick_count + 1
    /\ pc' = "host"
    /\ UNCHANGED <<voxel_buf, temp_buf, intent_buf, command_buf, pending, params, done, free,
                   wlog, irng, tinfo, acc, snap, stats_buf>>
    /\ UNCHANGED <<hostvars, probe, wg, ui>>

\* ------------------------------------------------------------------------
\* GPU: the threads of a dispatch run one at a time, in any order the
\* scheduler allows: in index order, or with one thread overtaken by later
\* ones (so every pair of threads runs in both orders).
\* ------------------------------------------------------------------------
Holes(d) == {j \in Idx \ d : \E m \in d : j < m}

Runnable ==
    IF free
    THEN {i \in Idx \ done : Cardinality(Holes(done \cup {i})) <= 1}
    ELSE {i \in Idx \ done : \A j \in Idx \ done : i <= j}

\* buf after the writes of w, in order
RECURSIVE ApplyWrites(_, _, _)
ApplyWrites(buf, w, k) ==
    IF k > Len(w) THEN buf
    ELSE ApplyWrites([buf EXCEPT ![w[k][1]] = w[k][2]], w, k + 1)

\* the write log after thread i has made the writes of w
RECURSIVE LogWrites(_, _, _, _)
LogWrites(log, i, w, k) ==
    IF k > Len(w) THEN log
    ELSE LogWrites([log EXCEPT ![w[k][1]] = Append(@, i)], i, w, k + 1)

\* whether the thread reaches the read of its voxel's type in the command loop
ReadsOwnType(cmds, p, idx) ==
    \E c \in 1 .. Min(Len(cmds), MAX_COMMANDS) :
        /\ cmds[c].type # CMD_NOOP
        /\ LET my_pos == grid_coords(idx, p.grid_size)
           IN  Max(Abs(my_pos[1] - cmds[c].x),
                   Max(Abs(my_pos[2] - cmds[c].y), Abs(my_pos[3] - cmds[c].z))) <= cmds[c].radius

ApplyThread(i) ==
    /\ pc = "apply_commands"
    /\ i \in Runnable
    /\ \E slot \in {read_slot(parity)} :
       \E w \in {apply_commands_main(voxel_buf[slot], command_buf, params, i)} :
           /\ voxel_buf' = [voxel_buf EXCEPT ![slot] = ApplyWrites(@, w, 1)]
           /\ wlog' = LogWrites(wlog, i, w, 1)
           /\ acc' = acc \cup (IF ReadsOwnType(command_buf, params, i)
                                THEN {Access("apply_commands", "voxel", slot, "r")} ELSE {})
                         \cup (IF w # << >>
                                THEN {Access("apply_commands", "voxel", slot, "w")} ELSE {})
    /\ done' = done \cup {i}
    /\ UNCHANGED <<temp_buf, intent_buf, command_buf, pending, params, tick_count, parity, pc,
                   free, irng, tinfo, snap, stats_buf>>
    /\ UNCHANGED <<hostvars, probe, wg, ui>>

DiffuseThread(i) ==
    /\ pc = "temperature_diffusion"
    /\ i \in Runnable
    /\ \E rs \in {read_slot(parity)} : \E ws \in {write_slot(parity)} :
       \E w \in {temperature_diffusion_main(temp_buf[rs], voxel_buf[rs], params, i)} :
           /\ temp_buf' = [temp_buf EXCEPT ![ws] = ApplyWrites(@, w, 1)]
           /\ wlog' = LogWrites(wlog, i, w, 1)
           /\ acc' = acc \cup {Access("temperature_diffusion", "temp", rs, "r"),
                                Access("temperature_diffusion", "voxel", rs, "r"),
                                Access("temperature_diffusion", "temp", ws, "w")}
    /\ done' = done \cup {i}
    /\ UNCHANGED <<voxel_buf, intent_buf, command_buf, pending, params, tick_count, parity, pc,
                   free, irng, tinfo, snap, stats_buf>>
    /\ UNCHANGED <<hostvars, probe, wg, ui>>

\* intent_declaration with the threads of non-protocell voxels returning
\* before the write of their slot
IntentThreadProtocellsOnly(i) ==
    /\ pc = "intent_declaration"
    /\ i \in Runnable
    /\ \E rs \in {read_slot(parity)} :
       \E r \in {intent_declaration_main(voxel_buf[rs], params, i)} :
       \E w \in {IF voxel_buf[rs][i].type = VOXEL_PROTOCELL THEN r.writes ELSE << >>} :
           /\ intent_buf' = ApplyWrites(intent_buf, w, 1)
           /\ wlog' = LogWrites(wlog, i, w, 1)
           /\ irng' = [irng EXCEPT ![i] = r.rng]
           /\ acc' = acc \cup {Access("intent_declaration", "voxel", rs, "r")}
    /\ done' = done \cup {i}
    /\ UNCHANGED <<voxel_buf, temp_buf, command_buf, pending, params, tick_count, parity, pc,
                   free, tinfo, snap, stats_buf>>
    /\ UNCHANGED <<hostvars, probe, wg, ui>>

IntentThread(i) ==
    /\ pc = "intent_declaration"
    /\ i \in Runnable
    /\ \E rs \in {read_slot(parity)} :
       \E r \in {intent_declaration_main(voxel_buf[rs], params, i)} :
           /\ intent_buf' = ApplyWrites(intent_buf, r.writes, 1)
           /\ wlog' = LogWrites(wlog, i, r.writes, 1)
           /\ irng' = [irng EXCEPT ![i] = r.rng]
           /\ acc' = acc \cup {Access("intent_declaration", "voxel", rs, "r")}
    /\ done' = done \cup {i}
    /\ UNCHANGED <<voxel_buf, temp_buf, command_buf, pending, params, tick_count, parity, pc,
                   free, tinfo, snap, stats_buf>>
    /\ UNCHANGED <<hostvars, probe, wg, ui>>

\* the cases of resolve_execute that read the temperature
TempCases == {"E2", "E3", "P2a", "P2b", "P3", "P4b", "P5a", "P5b"}

ResolveThread(i) ==
    /\ pc = "resolve_execute"
    /\ i \in Runnable
    /\ \E rs \in {read_slot(parity)} : \E ws \in {write_slot(parity)} :
       \E r \in {resolve_execute_main(voxel_buf[rs], intent_buf, temp_buf[ws], params, i)} :
           /\ voxel_buf' = [voxel_buf EXCEPT ![ws] = ApplyWrites(@, r.writes, 1)]
           /\ wlog' = LogWrites(wlog, i, r.writes, 1)
           /\ tinfo' = [tinfo EXCEPT ![i] = [case |-> r.case, winner |-> r.winner,
                                              avail |-> r.avail, cost |-> r.cost, rng |-> r.rng]]
           /\ acc' = acc \cup {Access("resolve_execute", "voxel", rs, "r"),
                                Access("resolve_execute", "voxel", ws, "w")}
                         \cup (IF r.case \in TempCases
                                THEN {Access("resolve_execute", "temp", ws, "r")} ELSE {})
    /\ done' = done \cup {i}
    /\ UNCHANGED <<temp_buf, intent_buf, command_buf, pending, params, tick_count, parity, pc,
                   free, irng, snap, stats_buf>>
    /\ UNCHANGED <<hostvars, probe, wg, ui>>

StatsThread(i) ==
    /\ pc = "stats_reduction"
    /\ i \in Runnable
    /\ LET ws == write_slot(parity)
       IN  /\ stats_buf' = stats_reduction_main(voxel_buf[ws], stats_buf, i)
           /\ acc' = acc \cup {Access("stats_reduction", "voxel", ws, "r")}
    /\ done' = done \cup {i}
    /\ UNCHANGED <<voxel_buf, temp_buf, intent_buf, command_buf, pending, params, tick_count,
                   parity, pc, free, wlog, irng, tinfo, snap>>
    /\ UNCHANGED <<hostvars, probe, wg, ui>>

Next ==
    \/ BeginTick
    \/ \E i \in Idx : ApplyThread(i)
    \/ \E i \in Idx : DiffuseThread(i)
    \/ \E i \in Idx : IntentThread(i)
    \/ \E i \in Idx : ResolveThread(i)
    \/ \E i \in Idx : StatsThread(i)
    \/ EndDispatch
    \/ FlipParity

Spec == Init /\ [][Next]_vars

\* ------------------------------------------------------------------------
\* resolve_execute on a buffer of intents that includes Predate: the
\* dispatch starts from voxels and intents as intent declaration with the
\* priority Die > Predate > Replicate > Move > Idle leaves them.
\* ------------------------------------------------------------------------
\* a prey at voxel 0 with predators at voxels 1 and 2, a third protocell at
\* voxel 3 next to both predators, an Empty voxel 4 the prey can move to,
\* and a second mover at voxel 5 next to it; c and d tell whether the
\* protocells at voxels 3 and 2 are predators
PredationCells(c, d) ==
    <<Proto(10, 1, Mover), Proto(30, 0, Predator),
      Proto(40, 0, IF d THEN Predator ELSE NonPredator),
      Proto(40, 0, IF c THEN Predator ELSE NonPredator),
      Empty, Proto(20, 2, Mover), Wall, Wall>>

\* the direction from voxel i to its neighbour j
DirTo(i, j) ==
    CHOOSE d \in Dirs : neighbor_in_direction(grid_coords(i, GridSize), d, GridSize) = U32(j)

\* the intent of voxel i: Predate toward the neighbouring protocell of
\* lowest energy below the aggression threshold if i can predate, else
\* Replicate toward an Empty neighbour if its energy is above its
\* replication threshold, else Move toward an Empty neighbour if move is
\* chosen, else Idle; bid is the roll
DeclaredWithPredation(voxels, i, roll, move) ==
    LET near(t) == {j \in Idx : /\ voxels[j].type = t
                                /\ \E d \in Dirs :
                                      neighbor_in_direction(grid_coords(i, GridSize), d, GridSize) = U32(j)}
        prey == IF genome_get_byte(voxels, i, 7) = 0 THEN {}
                ELSE {j \in near(VOXEL_PROTOCELL) : voxels[j].energy < genome_get_byte(voxels, i, 8)}
        bid == roll % (voxels[i].energy + 1)
        threshold == (Preset(1).replication_energy_min * genome_get_byte(voxels, i, 2)) \div 255
    IN  IF voxels[i].type # VOXEL_PROTOCELL THEN ZERO
        ELSE IF voxels[i].energy = 0 THEN intent_encode(ACTION_DIE, DIR_SELF, 0)
        ELSE IF prey # {}
        THEN intent_encode(ACTION_PREDATE,
                           DirTo(i, CHOOSE j \in prey : \A k \in prey : voxels[j].energy <= voxels[k].energy),
                           bid)
        ELSE IF voxels[i].energy > threshold /\ near(VOXEL_EMPTY) # {}
        THEN intent_encode(ACTION_REPLICATE, DirTo(i, CHOOSE j \in near(VOXEL_EMPTY) : TRUE), bid)
        ELSE IF move /\ near(VOXEL_EMPTY) # {}
        THEN intent_encode(ACTION_MOVE, DirTo(i, CHOOSE j \in near(VOXEL_EMPTY) : TRUE), bid)
        ELSE intent_encode(ACTION_IDLE, DIR_SELF, 0)

\* the rolls of the bids (per voxel), the voxels that choose to move, and
\* whether the prey at voxel 0 has the genome of a replicator
PredationInputs ==
    [c : BOOLEAN, d : BOOLEAN, rolls : {<<0, 0, 0, 1, 0, 0, 0, 0>>, <<0, 2, 2, 1, 0, 3, 0, 0>>,
                                          <<3, 2, 0, 1, 0, 0, 0, 0>>, <<3, 0, 2, 1, 0, 3, 0, 0>>,
                                          <<3, 0, 0, 1, 0, 3, 0, 0>>, <<1, 3, 2, 1, 0, 1, 0, 0>>},
     movers : {{}, {0}, {0, 5}}, free : BOOLEAN, breeder : {FALSE}]
    \cup
    [c : BOOLEAN, d : BOOLEAN, rolls : {<<3, 2, 0, 1, 0, 0, 0, 0>>, <<0, 0, 0, 1, 0, 0, 0, 0>>},
     movers : {{}, {5}}, free : {FALSE}, breeder : {TRUE}]

InitPredation ==
    \E in \in PredationInputs :
        LET cells == PredationCells(in.c, in.d)
            voxels == [i \in Idx |-> IF i = 0 /\ in.breeder THEN Proto(10, 1, Replicator(0))
                                     ELSE cells[i + 1]]
        IN  /\ voxel_buf = [s \in 0 .. 1 |-> IF s = 0 THEN voxels ELSE [i \in Idx |-> Empty]]
            /\ temp_buf = [s \in 0 .. 1 |-> [i \in Idx |-> 2]]
            /\ intent_buf = [i \in Idx |->
                                DeclaredWithPredation(voxels, i, in.rolls[i + 1], i \in in.movers)]
            /\ command_buf = << >>
            /\ pending = << >>
            /\ params = Preset(1)
            /\ tick_count = 0
            /\ parity = 0
            /\ pc = "resolve_execute"
            /\ done = {}
            /\ free = in.free
            /\ wlog = [i \in Idx |-> << >>]
            /\ irng = [i \in Idx |-> ZERO]
            /\ tinfo = [i \in Idx |-> NO_INFO]
            /\ acc = {}
            /\ snap = [voxels |-> voxels, temps |-> temp_buf[0], intents |-> [i \in Idx |-> ZERO]]
            /\ stats_buf = ZERO_STATS
            /\ HostInTick
            /\ wg = NoWorkgroups
            /\ ui = UILoaded

NextPredation ==
    \/ \E i \in Idx : ResolveThread(i)
    \/ EndDispatch

SpecPredation == InitPredation /\ [][NextPredation]_vars

\* ------------------------------------------------------------------------
\* The engine followed over the life of a Waste voxel: a grid of Walls with
\* Waste of several ages, a protocell without energy, which dies in the
\* first tick, and an Empty voxel, run for as many ticks as the youngest
\* Waste needs to decay.  The host keeps ticking and every dispatch
\* completes, so each step that is possible is eventually taken.
\* ------------------------------------------------------------------------
MaxWasteTicks == 12

WasteCells(a) ==
    <<Plain(VOXEL_WASTE, 0, a), Proto(0, 3, Idler), Wall, Plain(VOXEL_WASTE, 0, 8),
      Wall, Empty, Wall, Wall>>

InitWaste ==
    \E a \in {0, 5, 9, 10, 50}, k \in {1, 2} :
        /\ voxel_buf = [s \in 0 .. 1 |->
                           [i \in Idx |-> IF s = 0
                                          THEN IF InCorner(i) THEN WasteCells(a)[CornerCell(i)] ELSE Wall
                                          ELSE Empty]]
        /\ temp_buf = [s \in 0 .. 1 |-> [i \in Idx |-> IF s = 0 THEN 2 ELSE 0]]
        /\ intent_buf = [i \in Idx |-> ZERO]
        /\ command_buf = << >>
        /\ pending = << >>
        /\ params = Preset(k)
        /\ tick_count = 0
        /\ parity = 0
        /\ pc = "host"
        /\ done = {}
        /\ free = FALSE
        /\ wlog = [i \in Idx |-> << >>]
        /\ irng = [i \in Idx |-> ZERO]
        /\ tinfo = [i \in Idx |-> NO_INFO]
        /\ acc = {}
        /\ snap = [voxels |-> voxel_buf[0], temps |-> temp_buf[0], intents |-> intent_buf]
        /\ stats_buf = ZERO_STATS
        /\ HostInTick
        /\ wg = NoWorkgroups
        /\ ui = UILoaded

NextWaste ==
    \/ BeginTickWithin(MaxWasteTicks)
    \/ \E i \in Idx : ApplyThread(i)
    \/ \E i \in Idx : DiffuseThread(i)
    \/ \E i \in Idx : IntentThread(i)
    \/ \E i \in Idx : ResolveThread(i)
    \/ \E i \in Idx : StatsThread(i)
    \/ EndDispatch
    \/ FlipParity

\* the run has been followed for MaxWasteTicks ticks
WasteRunOver == pc = "host" /\ tick_count >= MaxWasteTicks

\* a step of NextWaste seen from outside: every step ends a thread (done
\* grows) or moves the tick to its next stage (pc changes), and one is
\* possible in every state but the last of the run
WasteProgress ==
    /\ ~ WasteRunOver
    /\ pc' \in {"host", "apply_commands", "temperature_diffusion", "intent_declaration",
                "resolve_execute", "stats_reduction", "flip"}
    /\ done' \in SUBSET Idx
    /\ <<pc', done'>> # <<pc, done>>

\* the host keeps ticking and every dispatch completes
SpecWaste == InitWaste /\ [][NextWaste]_vars /\ WF_<<pc, done>>(WasteProgress)

\* ------------------------------------------------------------------------
\* The host: startup over the capability tiers, the frame loop with the
\* tick scheduler, and the asynchronous stats readback. SimEngine::tick()
\* encodes and submits the dispatches of a tick together, so a tick is one
\* step of the host here.
\* ------------------------------------------------------------------------
\* the tiers from the highest to the lowest
Tiers == <<"Sparse", "Dense-High", "Dense-Mid", "Dense-Low">>

\* time is counted in units of 1/60 s; the scheduler accepts tick rates of
\* 1 to 60 per second, of which the model takes three
UnitsPerSecond == 60
TickRates == {1, 20, 60}
tick_duration(rate) == UnitsPerSecond \div rate
MAX_TICKS_PER_FRAME == 3

\* frame times dt: a frame at 60 FPS, a stall of 10 frames, a stall of 4 s
FrameTimes == {1, 10, 240}
MaxAccumulator == 250
MaxHostTicks == 6

\* the simulation buffers before the first tick
BuffersAllocated ==
    /\ voxel_buf = [s \in 0 .. 1 |-> [i \in Idx |-> Empty]]
    /\ temp_buf = [s \in 0 .. 1 |-> [i \in Idx |-> 2]]
    /\ intent_buf = [i \in Idx |-> ZERO]
    /\ command_buf = << >>
    /\ pending = << >>
    /\ params = Preset(1)
    /\ tick_count = 0
    /\ parity = 0
    /\ pc = "host"
    /\ done = {}
    /\ free = FALSE
    /\ wlog = [i \in Idx |-> << >>]
    /\ irng = [i \in Idx |-> ZERO]
    /\ tinfo = [i \in Idx |-> NO_INFO]
    /\ acc = {}
    /\ snap = [voxels |-> voxel_buf[0], temps |-> temp_buf[0], intents |-> intent_buf]
    /\ stats_buf = ZERO_STATS
    /\ probe = [op |-> "none"]
    /\ wg = NoWorkgroups
    /\ ui = UILoaded

\* startup: the device limits select the first tier to try, and allocation
\* succeeds at the tiers in device
InitStartup ==
    /\ BuffersAllocated
    /\ host_pc = "startup"
    /\ \E device \in SUBSET (1 .. 4), first \in 1 .. 4 :
           startup = [device |-> device, tier |-> first, fallbacks |-> << >>, errors |-> 0]
    /\ sched = [rate |-> 60, accumulator |-> 0, paused |-> FALSE, step |-> FALSE,
                frame_ticks |-> 0]
    /\ readback = [state |-> "Idle", maps |-> 0]

\* the engine after a startup that fell back from Dense-High to Dense-Mid,
\* before the first frame
InitHost ==
    /\ BuffersAllocated
    /\ host_pc = "idle"
    /\ startup = [device |-> {3, 4}, tier |-> 3, fallbacks |-> <<2>>, errors |-> 0]
    /\ \E rate \in TickRates :
           sched = [rate |-> rate, accumulator |-> 0, paused |-> FALSE, step |-> FALSE,
                    frame_ticks |-> 0]
    /\ readback = [state |-> "Idle", maps |-> 0]

\* the tier to try after a failure at tier t, skipping none
NextTierSkipping(t) == t + 2
NextTier(t) == t + 1

\* one allocation attempt: success starts the engine at this tier, failure
\* falls back to the next lower tier and logs it, failure at the lowest
\* tier is the terminal unsupported-platform error
TryAllocate ==
    /\ host_pc = "startup"
    /\ IF startup.tier \in startup.device
       THEN /\ host_pc' = "idle"
            /\ UNCHANGED startup
       ELSE IF NextTier(startup.tier) <= Len(Tiers)
       THEN /\ startup' = [startup EXCEPT !.tier = NextTier(@),
                                          !.fallbacks = Append(@, startup.tier)]
            /\ UNCHANGED host_pc
       ELSE /\ host_pc' = "unsupported"
            /\ startup' = [startup EXCEPT !.errors = @ + 1]
    /\ UNCHANGED <<voxel_buf, temp_buf, intent_buf, command_buf, pending, params, tick_count,
                   parity, pc, done, free, wlog, irng, tinfo, acc, snap, stats_buf, sched,
                   readback>>
    /\ UNCHANGED <<probe, wg, ui>>

\* whether the scheduler runs a tick now: while running, a tick duration has
\* accumulated and fewer than 3 ticks were run in this frame; while paused,
\* a single step was requested
TickDueUncapped ==
    IF sched.paused THEN sched.step
    ELSE sched.accumulator >= tick_duration(sched.rate)

\* the tick condition of a scheduler that does not look at the pause flag
TickDueWhilePaused ==
    \/ sched.paused /\ sched.step
    \/ /\ sched.accumulator >= tick_duration(sched.rate)
       /\ sched.frame_ticks < MAX_TICKS_PER_FRAME

TickDue ==
    IF sched.paused THEN sched.step
    ELSE /\ sched.accumulator >= tick_duration(sched.rate)
         /\ sched.frame_ticks < MAX_TICKS_PER_FRAME

\* the frame callback starts: the wall clock delta goes to the accumulator
FrameBegin(dt) ==
    /\ host_pc = "idle"
    /\ tick_count + MAX_TICKS_PER_FRAME <= MaxHostTicks
    /\ sched.accumulator + dt <= MaxAccumulator
    /\ host_pc' = "frame"
    /\ sched' = [sched EXCEPT !.accumulator = IF sched.paused THEN @ ELSE @ + dt,
                              !.frame_ticks = 0]
    /\ UNCHANGED <<voxel_buf, temp_buf, intent_buf, command_buf, pending, params, tick_count,
                   parity, pc, done, free, wlog, irng, tinfo, acc, snap, stats_buf, startup,
                   readback>>
    /\ UNCHANGED <<probe, wg, ui>>

\* step 10 of the tick: copy stats to staging and request a map, if the
\* previous map has completed and been read
KickReadbackAlways(r) == [state |-> "Requested", maps |-> r.maps + 1]
KickReadback(r) ==
    IF r.state \in {"Idle", "Read"}
    THEN [state |-> "Requested", maps |-> r.maps + 1]
    ELSE r

\* the scheduler runs one tick: the dispatches are submitted, parity flips
HostTick ==
    /\ host_pc = "frame"
    /\ TickDue
    /\ tick_count' = tick_count + 1
    /\ parity' = 1 - parity
    /\ sched' = IF sched.paused
                THEN [sched EXCEPT !.step = FALSE, !.frame_ticks = @ + 1]
                ELSE [sched EXCEPT !.accumulator = @ - tick_duration(sched.rate),
                                   !.frame_ticks = @ + 1]
    /\ readback' = KickReadback(readback)
    /\ UNCHANGED <<voxel_buf, temp_buf, intent_buf, command_buf, pending, params,
                   pc, done, free, wlog, irng, tinfo, acc, snap, stats_buf, host_pc, startup>>
    /\ UNCHANGED <<probe, wg, ui>>

\* the frame callback ends: stats_readback is polled (a completed map is
\* read and unmapped), the renderer runs, the host yields
FrameEnd ==
    /\ host_pc = "frame"
    /\ ~TickDue
    /\ host_pc' = "idle"
    /\ readback' = IF readback.state = "Mapped"
                   THEN [state |-> "Read", maps |-> readback.maps - 1]
                   ELSE readback
    /\ UNCHANGED <<voxel_buf, temp_buf, intent_buf, command_buf, pending, params, tick_count,
                   parity, pc, done, free, wlog, irng, tinfo, acc, snap, stats_buf, startup,
                   sched>>
    /\ UNCHANGED <<probe, wg, ui>>

\* the map callback of the staging buffer
MapCompleted ==
    /\ host_pc = "idle"
    /\ readback.state = "Requested"
    /\ readback' = [readback EXCEPT !.state = "Mapped"]
    /\ UNCHANGED <<voxel_buf, temp_buf, intent_buf, command_buf, pending, params, tick_count,
                   parity, pc, done, free, wlog, irng, tinfo, acc, snap, stats_buf, host_pc,
                   startup, sched>>
    /\ UNCHANGED <<probe, wg, ui>>

\* the player's controls, handled between frames
Pause ==
    /\ host_pc = "idle"
    /\ ~sched.paused
    /\ sched' = [sched EXCEPT !.paused = TRUE]
    /\ UNCHANGED <<voxel_buf, temp_buf, intent_buf, command_buf, pending, params, tick_count,
                   parity, pc, done, free, wlog, irng, tinfo, acc, snap, stats_buf, host_pc,
                   startup, readback>>
    /\ UNCHANGED <<probe, wg, ui>>

Resume ==
    /\ host_pc = "idle"
    /\ sched.paused
    /\ sched' = [sched EXCEPT !.paused = FALSE, !.step = FALSE]
    /\ UNCHANGED <<voxel_buf, temp_buf, intent_buf, command_buf, pending, params, tick_count,
                   parity, pc, done, free, wlog, irng, tinfo, acc, snap, stats_buf, host_pc,
                   startup, readback>>
    /\ UNCHANGED <<probe, wg, ui>>

Step ==
    /\ host_pc = "idle"
    /\ sched.paused
    /\ ~sched.step
    /\ sched' = [sched EXCEPT !.step = TRUE]
    /\ UNCHANGED <<voxel_buf, temp_buf, intent_buf, command_buf, pending, params, tick_count,
                   parity, pc, done, free, wlog, irng, tinfo, acc, snap, stats_buf, host_pc,
                   startup, readback>>
    /\ UNCHANGED <<probe, wg, ui>>

SetTickRate(rate) ==
    /\ host_pc = "idle"
    /\ rate # sched.rate
    /\ sched' = [sched EXCEPT !.rate = rate]
    /\ UNCHANGED <<voxel_buf, temp_buf, intent_buf, command_buf, pending, params, tick_count,
                   parity, pc, done, free, wlog, irng, tinfo, acc, snap, stats_buf, host_pc,
                   startup, readback>>
    /\ UNCHANGED <<probe, wg, ui>>

NextHost ==
    \/ \E dt \in FrameTimes : FrameBegin(dt)
    \/ HostTick
    \/ FrameEnd
    \/ MapCompleted
    \/ Pause
    \/ Resume
    \/ Step
    \/ \E rate \in TickRates : SetTickRate(rate)

SpecHost == InitHost /\ [][NextHost]_vars

NextStartup == TryAllocate

SpecStartup == InitStartup /\ [][NextStartup]_vars

\* ------------------------------------------------------------------------
\* The data-layout operations applied to values of their domain: the
\* actions, directions and bids of the intent word
\* ------------------------------------------------------------------------
BidSamples == {0, 1, 2, 63, 64, 1023, 1024, 1025, 65535, 65536, 33554431, 33554432, 67108863}

InitLayout ==
    /\ BuffersAllocated
    /\ HostInTick

\* an intent is encoded and the word is decoded again
EncodeDecodeIntent(action, direction, bid) ==
    /\ \E word \in {intent_encode(action, direction, bid)} :
           probe' = [op |-> "intent", action |-> action, direction |-> direction, bid |-> bid,
                     word |-> word,
                     decoded |-> <<intent_get_action(word), intent_get_direction(word),
                                   intent_get_bid(word)>>]
    /\ UNCHANGED <<voxel_buf, temp_buf, intent_buf, command_buf, pending, params, tick_count,
                   parity, pc, done, free, wlog, irng, tinfo, acc, snap, stats_buf, hostvars, wg, ui>>

\* apply_commands.wgsl, the word-level reads of the command buffer: record c
\* starts at word 4 + 16 c, its fields are read from the six words that follow
cmd_base_packed(c) == 1 + c * 16
cmd_base(c) == 4 + c * 16

read_command(buf, c) ==
    [type |-> buf[cmd_base(c)], x |-> buf[cmd_base(c) + 1], y |-> buf[cmd_base(c) + 2],
     z |-> buf[cmd_base(c) + 3], radius |-> buf[cmd_base(c) + 4],
     param_0 |-> buf[cmd_base(c) + 5]]

\* a command buffer of n commands in which every word after the count holds
\* its own word index, so that a value read tells where it was read from
IndexedCommandWords(n) ==
    [w \in 0 .. (4 + 16 * MAX_COMMANDS - 1) |-> IF w = 0 THEN n ELSE w]

\* the kernel reads record c of a buffer holding n commands
ReadCommandRecord(n, c) ==
    /\ \E buf \in {IndexedCommandWords(n)} :
           /\ c < Min(buf[0], MAX_COMMANDS)
           /\ probe' = [op |-> "command", n |-> n, c |-> c,
                        command_count |-> Min(buf[0], MAX_COMMANDS),
                        record |-> read_command(buf, c)]
    /\ UNCHANGED <<voxel_buf, temp_buf, intent_buf, command_buf, pending, params, tick_count,
                   parity, pc, done, free, wlog, irng, tinfo, acc, snap, stats_buf, hostvars, wg, ui>>

CountSamples == {1, 2, 63, 64, 65, 100}

\* an intent buffer for a grid of side gs: voxel s declares nothing, Move or
\* Replicate, in a direction that varies with s and k
SampleIntents(gs, k) ==
    [s \in 0 .. (gs * gs * gs - 1) |->
        IF (s + k) % 3 = 0 THEN intent_encode(ACTION_IDLE, DIR_SELF, 0)
        ELSE intent_encode(IF (s + k) % 3 = 1 THEN ACTION_MOVE ELSE ACTION_REPLICATE,
                           (5 * s + k) % 6, s + 1)]

\* from the voxel t of a grid of side gs: one step in each direction and one
\* step back in the opposite direction, and the contender scan of t
ContendersAt(gs, t, k) ==
    /\ \E pos \in {grid_coords(t, gs)} : \E intents \in {SampleIntents(gs, k)} :
           probe' = [op |-> "contenders", gs |-> gs, target |-> t, intents |-> intents,
                     steps |-> [d \in 0 .. 5 |->
                                  LET n == neighbor_in_direction(pos, d, gs)
                                  IN  [n |-> n,
                                       opp |-> opposite_direction(d),
                                       oppopp |-> opposite_direction(opposite_direction(d)),
                                       back |-> IF n = NO_INDEX THEN NO_INDEX
                                                ELSE neighbor_in_direction(
                                                         grid_coords(ToInt(n), gs),
                                                         opposite_direction(d), gs)]],
                     found |-> FoundContenders(intents, pos, gs)]
    /\ UNCHANGED <<voxel_buf, temp_buf, intent_buf, command_buf, pending, params, tick_count,
                   parity, pc, done, free, wlog, irng, tinfo, acc, snap, stats_buf, hostvars, wg, ui>>

GridSamples == {2, 3}

NextLayout ==
    \/ \E action \in ACTION_NO_ACTION .. ACTION_IDLE, direction \in 0 .. DIR_SELF,
          bid \in BidSamples :
           EncodeDecodeIntent(action, direction, bid)
    \/ \E n \in CountSamples, c \in 0 .. (MAX_COMMANDS - 1) : ReadCommandRecord(n, c)
    \/ \E gs \in GridSamples, k \in 0 .. 5 : \E t \in 0 .. (gs * gs * gs - 1) :
           ContendersAt(gs, t, k)

SpecLayout == InitLayout /\ [][NextLayout]_vars

\* ------------------------------------------------------------------------
\* web/ui.js: the tool palette and the global key handler.  main.js installs
\* window._bridge once the engine is initialized; set_tool holds the tool
\* last passed to the bridge, if any.
\* ------------------------------------------------------------------------
ToolIds == 1 .. 8

keyMap == [k \in {"1", "2", "3", "4", "5", "6", "7", "8"} |->
              CASE k = "1" -> 1 [] k = "2" -> 2 [] k = "3" -> 3 [] k = "4" -> 4
                [] k = "5" -> 5 [] k = "6" -> 6 [] k = "7" -> 7 [] k = "8" -> 8]

Keys == DOMAIN keyMap \cup {"?", "Escape", "a"}

\* window._bridge.set_tool(tool), when the bridge is there
bridge_set_tool(u, tool) == IF u.bridge THEN [u EXCEPT !.set_tool = {tool}] ELSE u

selectTool(u, id) ==
    LET v == [u EXCEPT !.activeTool = IF u.activeTool = id THEN 0 ELSE id]
    IN  bridge_set_tool(v, v.activeTool)

\* the keydown listener of window
keydown(u, key) ==
    IF key = "?" THEN [u EXCEPT !.overlay = ~ u.overlay]
    ELSE IF key \in DOMAIN keyMap THEN [u EXCEPT !.activeTool = keyMap[key]]
    ELSE IF key = "Escape"
         THEN IF u.overlay THEN [u EXCEPT !.overlay = FALSE]
              ELSE [u EXCEPT !.activeTool = 0, !.inspector = FALSE]
    ELSE u

EngineUnchanged ==
    UNCHANGED <<voxel_buf, temp_buf, intent_buf, command_buf, pending, params, tick_count,
                parity, pc, done, free, wlog, irng, tinfo, acc, snap, stats_buf, hostvars,
                probe, wg>>

\* a click on the toolbar button of tool id
ClickTool(id) ==
    /\ ui' = selectTool(ui, id)
    /\ EngineUnchanged

KeyDown(key) ==
    /\ ui' = keydown(ui, key)
    /\ EngineUnchanged

\* main.js: window._bridge = { set_tool, ... } once init has returned
BridgeInstalled ==
    /\ ~ ui.bridge
    /\ ui' = [ui EXCEPT !.bridge = TRUE]
    /\ EngineUnchanged

\* window._onPick: the inspector shows the picked voxel
OnPick ==
    /\ ui.bridge
    /\ ui' = [ui EXCEPT !.inspector = TRUE]
    /\ EngineUnchanged

\* the mousedown listener of window: a click without shift hides the inspector
MouseDown(shiftKey) ==
    /\ ui' = IF shiftKey THEN ui ELSE [ui EXCEPT !.inspector = FALSE]
    /\ EngineUnchanged

InitUI ==
    /\ BuffersAllocated
    /\ HostInTick

NextUI ==
    \/ \E id \in ToolIds : ClickTool(id)
    \/ \E key \in Keys : KeyDown(key)
    \/ BridgeInstalled
    \/ OnPick
    \/ \E shiftKey \in BOOLEAN : MouseDown(shiftKey)

SpecUI == InitUI /\ [][NextUI]_vars

\* ------------------------------------------------------------------------
\* stats_reduction.wgsl step by step: the threads of a workgroup initialize
\* the workgroup memory, meet at a barrier, add what they counted to the
\* workgroup memory, meet at a second barrier, and thread 0 of the workgroup
\* adds the workgroup's totals to the stats buffer. Workgroups and the
\* threads between two barriers run in any order.
\* ------------------------------------------------------------------------
\* the workgroup size (64 in the kernel), scaled to the grid of the model
WORKGROUP_SIZE == 4

total_voxels == NumVoxels
num_workgroups == (total_voxels + WORKGROUP_SIZE - 1) \div WORKGROUP_SIZE
total_threads == num_workgroups * WORKGROUP_SIZE
Threads == 0 .. total_threads - 1
Workgroups == 0 .. num_workgroups - 1
GroupOf(gid) == gid \div WORKGROUP_SIZE
Lid(gid) == gid % WORKGROUP_SIZE

\* the grid-stride loop of thread gid from voxel vi on: local_pop,
\* local_energy, local_max_energy
RECURSIVE StrideLoop(_, _, _)
StrideLoop(voxels, vi, local) ==
    IF vi >= total_voxels THEN local
    ELSE StrideLoop(voxels, vi + total_threads,
                    IF voxel_get_type(voxels, vi) = VOXEL_PROTOCELL
                    THEN [population |-> local.population + 1,
                          total_energy |-> local.total_energy + voxel_get_energy(voxels, vi),
                          max_energy |-> Max(local.max_energy, voxel_get_energy(voxels, vi))]
                    ELSE local)

\* atomicAdd, atomicAdd and atomicMax of the counts c into the totals m
AddCounts(m, c) ==
    [population |-> m.population + c.population,
     total_energy |-> m.total_energy + c.total_energy,
     max_energy |-> Max(m.max_energy, c.max_energy)]

\* "Initialize shared memory": thread 0 of the workgroup stores zeros
InitSharedSkipped(lid, mem) == mem
InitShared(lid, mem) == IF lid = 0 THEN ZERO_STATS ELSE mem

\* what workgroup memory may hold before it is initialized
Uninitialized == {ZERO_STATS, [population |-> 2, total_energy |-> 9, max_energy |-> 70]}

\* what the stats buffer may hold from the tick before
StaleStats == {ZERO_STATS, [population |-> 3, total_energy |-> 77, max_energy |-> 60]}

\* the voxel buffers resolve_execute may have written
WrittenBuffers ==
    {[i \in Idx |-> Layout(l, e, e + 9, Preset(1))[i + 1]] : l \in {1, 3, 4, 6, 7}, e \in {0, 50}}

\* resolve_execute has completed; the stats buffer holds the totals of the
\* tick before
InitStats ==
    /\ \E written \in WrittenBuffers :
           voxel_buf = [s \in 0 .. 1 |-> IF s = 1 THEN written ELSE [i \in Idx |-> Empty]]
    /\ temp_buf = [s \in 0 .. 1 |-> [i \in Idx |-> 2]]
    /\ intent_buf = [i \in Idx |-> ZERO]
    /\ command_buf = << >>
    /\ pending = << >>
    /\ params = Preset(1)
    /\ tick_count = 1
    /\ parity = 0
    /\ pc = "resolve_execute"
    /\ done = Idx
    /\ free = TRUE
    /\ wlog = [i \in Idx |-> << >>]
    /\ irng = [i \in Idx |-> ZERO]
    /\ tinfo = [i \in Idx |-> NO_INFO]
    /\ acc = {}
    /\ snap = [voxels |-> voxel_buf[0], temps |-> temp_buf[0], intents |-> intent_buf]
    /\ stats_buf \in StaleStats
    /\ HostInTick
    /\ ui = UILoaded
    /\ \E garbage \in Uninitialized :
           wg = [mem |-> [g \in Workgroups |-> garbage], at |-> [t \in Threads |-> "init"]]

\* a thread runs up to the first workgroupBarrier
StatsInit(gid) ==
    /\ pc = "stats_reduction"
    /\ wg.at[gid] = "init"
    /\ wg' = [mem |-> [wg.mem EXCEPT ![GroupOf(gid)] = InitShared(Lid(gid), @)],
              at |-> [wg.at EXCEPT ![gid] = "loop"]]
    /\ UNCHANGED <<voxel_buf, temp_buf, intent_buf, command_buf, pending, params, tick_count,
                   parity, pc, done, free, wlog, irng, tinfo, acc, snap, stats_buf, hostvars,
                   probe, ui>>

\* past the first barrier, a thread runs its grid-stride loop and adds its
\* counts to the workgroup memory, up to the second workgroupBarrier
StatsAccumulate(gid) ==
    /\ pc = "stats_reduction"
    /\ wg.at[gid] = "loop"
    /\ \A t \in Threads : GroupOf(t) = GroupOf(gid) => wg.at[t] # "init"
    /\ \E local \in {StrideLoop(voxel_buf[write_slot(parity)], gid, ZERO_STATS)} :
           wg' = [mem |-> [wg.mem EXCEPT ![GroupOf(gid)] = AddCounts(@, local)],
                  at |-> [wg.at EXCEPT ![gid] = "merge"]]
    /\ UNCHANGED <<voxel_buf, temp_buf, intent_buf, command_buf, pending, params, tick_count,
                   parity, pc, done, free, wlog, irng, tinfo, acc, snap, stats_buf, hostvars,
                   probe, ui>>

\* past the second barrier, thread 0 of the workgroup adds the totals of
\* the workgroup to the stats buffer; the thread ends
StatsMerge(gid) ==
    /\ pc = "stats_reduction"
    /\ wg.at[gid] = "merge"
    /\ \A t \in Threads : GroupOf(t) = GroupOf(gid) => wg.at[t] \in {"merge", "end"}
    /\ stats_buf' = IF Lid(gid) = 0 THEN AddCounts(stats_buf, wg.mem[GroupOf(gid)])
                    ELSE stats_buf
    /\ wg' = [wg EXCEPT !.at[gid] = "end"]
    /\ UNCHANGED <<voxel_buf, temp_buf, intent_buf, command_buf, pending, params, tick_count,
                   parity, pc, done, free, wlog, irng, tinfo, acc, snap, hostvars, probe, ui>>

NextStats ==
    \/ EndDispatch
    \/ \E gid \in Threads : StatsInit(gid)
    \/ \E gid \in Threads : StatsAccumulate(gid)
    \/ \E gid \in Threads : StatsMerge(gid)

SpecStats == InitStats /\ [][NextStats]_vars

\* ------------------------------------------------------------------------
\* Properties
\* ------------------------------------------------------------------------
ReadBuf == voxel_buf[read_slot(parity)]
WriteBuf == voxel_buf[write_slot(parity)]

\* every write logged in the current dispatch was made by the thread of
\* the slot written
OwnSlotOnly == \A j \in Idx : \A k \in 1 .. Len(wlog[j]) : wlog[j][k] = j

\* C1 as stated: in every dispatch each thread writes only the slot of its
\* own voxel index, no slot is written twice within one dispatch, and when
\* resolve_execute has completed every slot has been written exactly once.
C1_WriteOnceEveryDispatch ==
    /\ OwnSlotOnly
    /\ \A j \in Idx : Len(wlog[j]) <= 1
    /\ (pc = "resolve_execute" /\ done = Idx) => \A j \in Idx : Len(wlog[j]) = 1

\* C1, amended: in every dispatch each thread writes only the slot of its
\* own voxel index; in temperature_diffusion, intent_declaration and
\* resolve_execute a slot is written exactly once, by its thread, when that
\* thread runs; in apply_commands a thread writes its slot at most once per
\* uploaded command, so possibly several times within the dispatch.
C1_OwnSlotOncePerKernel ==
    /\ OwnSlotOnly
    /\ pc \in {"temperature_diffusion", "intent_declaration", "resolve_execute"}
          => \A j \in Idx : Len(wlog[j]) = (IF j \in done THEN 1 ELSE 0)
    /\ pc = "apply_commands"
          => \A j \in Idx : Len(wlog[j]) <= (IF j \in done THEN Len(command_buf) ELSE 0)

\* resolve_execute has completed with a mover written into its destination
\* and its origin vacated, each by the thread of that voxel
C1_Witness ==
    /\ pc = "resolve_execute"
    /\ done = Idx
    /\ \E t \in Idx : /\ tinfo[t].case = "E3"
                       /\ tinfo[ToInt(tinfo[t].winner)].case = "P4a"
                       /\ wlog[t] = <<t>>
                       /\ wlog[ToInt(tinfo[t].winner)] = <<ToInt(tinfo[t].winner)>>

\* protocell s declared Replicate or Move toward voxel t
PointsAt(s, t) ==
    /\ ReadBuf[s].type = VOXEL_PROTOCELL
    /\ intent_get_action(intent_buf[s]) \in {ACTION_REPLICATE, ACTION_MOVE}
    /\ neighbor_in_direction(grid_coords(s, GridSize), intent_get_direction(intent_buf[s]),
                             GridSize) = U32(t)

\* C2: once the thread of an Empty voxel t and the thread of a protocell s
\* whose Replicate or Move intent points at t have both run, they have
\* computed the same contest winner at t, and s took the "won" branch
\* (split its energy, or vacated its cell) exactly if t's thread selected s.
C2_SourceAndTargetAgree ==
    pc = "resolve_execute" =>
        \A t \in done, s \in done :
            (ReadBuf[t].type = VOXEL_EMPTY /\ PointsAt(s, t)) =>
                /\ tinfo[s].winner = tinfo[t].winner
                /\ (tinfo[s].case \in {"P2a", "P4a"}) <=> (tinfo[t].winner = U32(s))

\* a contest of two protocells over one Empty voxel has been resolved: the
\* target's thread selected s1, s1 took the won branch and s2 the lost one
C2_Witness ==
    /\ pc = "resolve_execute"
    /\ done = Idx
    /\ \E t \in Idx, s1 \in Idx, s2 \in Idx :
          /\ s1 # s2
          /\ ReadBuf[t].type = VOXEL_EMPTY
          /\ PointsAt(s1, t) /\ PointsAt(s2, t)
          /\ tinfo[t].winner = U32(s1)
          /\ tinfo[t].case \in {"E2", "E3"}
          /\ tinfo[s1].case \in {"P2a", "P4a"}
          /\ tinfo[s2].case \in {"P2b", "P4b"}

\* the protocells whose Replicate or Move intent points at voxel t
Contenders(t) == {s \in Idx : PointsAt(s, t)}

\* C3: when the tick's dispatches have completed, every voxel that was
\* Empty and had two or more protocells declaring Replicate or Move toward
\* it holds a protocell in the buffer the tick wrote.
C3_ContestedVoxelOccupied ==
    pc = "flip" =>
        \A t \in Idx :
            (ReadBuf[t].type = VOXEL_EMPTY /\ Cardinality(Contenders(t)) >= 2)
                => WriteBuf[t].type = VOXEL_PROTOCELL

\* C5: between ticks, every voxel of the current buffer is a protocell
\* exactly if its species_id is not 0.
C5_SpeciesIffProtocell ==
    pc = "host" =>
        \A i \in Idx : (ReadBuf[i].type = VOXEL_PROTOCELL) <=> (ReadBuf[i].species_id # 0)

\* C6: between ticks, the energy of every voxel of the current buffer is at
\* most the max_energy parameter.
C6_EnergyAtMostMax ==
    pc = "host" => \A i \in Idx : ReadBuf[i].energy <= params.max_energy

\* C7: every cell of both temperature buffers is within [0.0, 1.0] at all
\* times, so in particular in the buffer a tick has written.
C7_TemperatureInRange ==
    \A s \in 0 .. 1 : \A i \in Idx : temp_buf[s][i] >= 0 /\ temp_buf[s][i] <= TEMP_ONE

\* a tick has completed in which a heat source and a cold source held their
\* Dirichlet values, a cell without any non-wall neighbour kept its own
\* temperature and another cell moved toward the mean of its neighbours
C7_Witness ==
    /\ pc = "host"
    /\ tick_count >= 1
    /\ \E h \in Idx, c \in Idx, k \in Idx, m \in Idx :
          /\ ReadBuf[h].type = VOXEL_HEAT_SOURCE /\ temp_buf[read_slot(parity)][h] = TEMP_ONE
          /\ ReadBuf[c].type = VOXEL_COLD_SOURCE /\ temp_buf[read_slot(parity)][c] = 0
          /\ snap.voxels[k].type \notin {VOXEL_WALL, VOXEL_HEAT_SOURCE, VOXEL_COLD_SOURCE}
          /\ temp_buf[read_slot(parity)][k] = snap.temps[k]
          /\ snap.voxels[m].type \notin {VOXEL_WALL, VOXEL_HEAT_SOURCE, VOXEL_COLD_SOURCE}
          /\ temp_buf[read_slot(parity)][m] # snap.temps[m]

\* ------------------------------------------------------------------------
\* The dispatches of a tick run one thread after the other in index order
\* ------------------------------------------------------------------------
RECURSIVE SeqApply(_, _)
SeqApply(buf, i) ==
    IF i >= NumVoxels THEN buf
    ELSE LET next == ApplyWrites(buf, apply_commands_main(buf, command_buf, params, i), 1)
         IN  Then(next, SeqApply(next, i + 1))

RECURSIVE SeqDiffuse(_, _, _, _)
SeqDiffuse(out, temps, voxels, i) ==
    IF i >= NumVoxels THEN out
    ELSE LET next == ApplyWrites(out, temperature_diffusion_main(temps, voxels, params, i), 1)
         IN  Then(next, SeqDiffuse(next, temps, voxels, i + 1))

RECURSIVE SeqIntent(_, _, _)
SeqIntent(out, voxels, i) ==
    IF i >= NumVoxels THEN out
    ELSE LET next == ApplyWrites(out, intent_declaration_main(voxels, params, i).writes, 1)
         IN  Then(next, SeqIntent(next, voxels, i + 1))

RECURSIVE SeqResolve(_, _, _, _, _)
SeqResolve(out, voxels, intents, temps, i) ==
    IF i >= NumVoxels THEN out
    ELSE LET next == ApplyWrites(out, resolve_execute_main(voxels, intents, temps, params, i).writes, 1)
         IN  Then(next, SeqResolve(next, voxels, intents, temps, i + 1))

\* what the tick that began in snap leaves when every dispatch runs in
\* index order: the voxels after the commands, the temperatures, the
\* intents and the voxels written
RefRead == SeqApply(snap.voxels, 0)
RefTemps == SeqDiffuse([i \in Idx |-> 0], snap.temps, RefRead, 0)
RefIntents == SeqIntent([i \in Idx |-> ZERO], RefRead, 0)
RefWrite == SeqResolve([i \in Idx |-> Empty], RefRead, RefIntents, RefTemps, 0)

\* a thread of the current dispatch has been overtaken by later ones
Overtaken == Holes(done) # {}

\* C4: whatever order the threads of each dispatch ran in, the tick leaves
\* exactly the voxels (and temperatures) that index-order execution of the
\* same commands on the same initial state leaves; and in every dispatch,
\* what the threads that ran ahead of an overtaken thread have written is
\* what they write in index order.
C4_OrderIndependent ==
    /\ pc = "flip" =>
          /\ ReadBuf = RefRead
          /\ temp_buf[write_slot(parity)] = RefTemps
          /\ WriteBuf = RefWrite
    /\ (pc = "apply_commands" /\ Overtaken) =>
          \A i \in done : ReadBuf[i] = RefRead[i]
    /\ (pc = "temperature_diffusion" /\ Overtaken) =>
          \A i \in done : temp_buf[write_slot(parity)][i]
                            = SeqDiffuse([j \in Idx |-> 0], snap.temps, ReadBuf, 0)[i]
    /\ (pc = "intent_declaration" /\ Overtaken) =>
          \A i \in done : intent_buf[i] = SeqIntent([j \in Idx |-> ZERO], ReadBuf, 0)[i]
    /\ (pc = "resolve_execute" /\ Overtaken) =>
          \A i \in done : WriteBuf[i]
                            = SeqResolve([j \in Idx |-> Empty], ReadBuf, intent_buf,
                                         temp_buf[write_slot(parity)], 0)[i]

\* in the second tick, the winner of a contest and the other threads of
\* resolve_execute have run while the thread of the contested voxel, which
\* has the lowest index, has not
C4_Witness ==
    /\ pc = "resolve_execute"
    /\ tick_count = 1
    /\ \E t \in Idx, s \in done :
          /\ t \notin done
          /\ done = Idx \ {t}
          /\ t < s
          /\ ReadBuf[t].type = VOXEL_EMPTY
          /\ PointsAt(s, t)
          /\ tinfo[s].case \in {"P2a", "P4a"}

\* the cases of resolve_execute that subtract costs from a protocell's energy
CostCases == {"E3", "P2a", "P2b", "P3", "P4b", "P5a", "P5b"}

\* C8: a thread of resolve_execute that subtracted movement and metabolic
\* costs from a protocell's available energy wrote Waste with energy 0 when
\* the costs were at least the available energy, and otherwise a protocell
\* with exactly the difference: never a protocell with a wrapped energy.
C8_NoWraparound ==
    pc = "resolve_execute" =>
        \A i \in done :
            tinfo[i].case \in CostCases =>
                IF tinfo[i].cost >= tinfo[i].avail
                THEN WriteBuf[i].type = VOXEL_WASTE /\ WriteBuf[i].energy = 0
                ELSE /\ WriteBuf[i].type = VOXEL_PROTOCELL
                     /\ WriteBuf[i].energy = tinfo[i].avail - tinfo[i].cost

\* a mover arrived with costs above its energy and a protocell staying in
\* place could not pay its metabolic cost: both voxels were written as Waste
C8_Witness ==
    /\ pc = "resolve_execute"
    /\ \E i \in done, j \in done :
          /\ tinfo[i].case = "E3" /\ tinfo[i].cost > tinfo[i].avail
          /\ WriteBuf[i].type = VOXEL_WASTE
          /\ tinfo[j].case \in {"P2b", "P3", "P4b"} /\ tinfo[j].cost > tinfo[j].avail
          /\ WriteBuf[j].type = VOXEL_WASTE

TickSlot == params.tick_count % 2
OtherSlot == 1 - TickSlot

\* C10 as stated: every access of the tick's kernels to the voxel and
\* temperature buffers reads slot n mod 2 or writes the opposite slot, and
\* no kernel reads the voxel buffer it writes.  (That the parity flips
\* once after the tick is part of the amended statement below.)
C10_ReadParityWriteOpposite ==
    /\ parity = tick_count % 2
    /\ \A a \in acc : /\ a.mode = "r" => a.slot = TickSlot
                      /\ a.mode = "w" => a.slot = OtherSlot
    /\ ~ \E a \in acc, b \in acc :
            /\ a.kernel = b.kernel /\ a.buffer = "voxel" /\ b.buffer = "voxel"
            /\ a.slot = b.slot /\ a.mode = "r" /\ b.mode = "w"

\* the slots each kernel may touch
AccessAllowed(a) ==
    IF a.kernel = "apply_commands"
    THEN a.buffer = "voxel" /\ a.slot = TickSlot
    ELSE IF a.kernel = "temperature_diffusion"
    THEN \/ a.mode = "r" /\ a.slot = TickSlot
         \/ a.mode = "w" /\ a.buffer = "temp" /\ a.slot = OtherSlot
    ELSE IF a.kernel = "intent_declaration"
    THEN a.mode = "r" /\ a.buffer = "voxel" /\ a.slot = TickSlot
    ELSE IF a.kernel = "resolve_execute"
    THEN \/ a.buffer = "voxel" /\ a.mode = "r" /\ a.slot = TickSlot
         \/ a.buffer = "voxel" /\ a.mode = "w" /\ a.slot = OtherSlot
         \/ a.buffer = "temp" /\ a.mode = "r" /\ a.slot = OtherSlot
    ELSE a.kernel = "stats_reduction" /\ a.buffer = "voxel" /\ a.mode = "r" /\ a.slot = OtherSlot

ParityInv ==
    /\ parity = tick_count % 2
    /\ pc # "host" => params.tick_count = tick_count
    /\ \A a \in acc : AccessAllowed(a)

ParityStep ==
    /\ parity' # parity => pc = "flip" /\ pc' = "host" /\ tick_count' = tick_count + 1
    /\ pc = "flip" =>
          /\ parity' = 1 - parity
          /\ voxel_buf'[parity'] = voxel_buf[1 - parity]
          /\ temp_buf'[parity'] = temp_buf[1 - parity]
    /\ pc = "host" =>
          /\ voxel_buf' = voxel_buf /\ temp_buf' = temp_buf
          /\ snap'.voxels = voxel_buf[tick_count % 2] /\ snap'.temps = temp_buf[tick_count % 2]
    /\ pc = "apply_commands" =>
          /\ voxel_buf'[1 - parity] = voxel_buf[1 - parity]
          /\ temp_buf' = temp_buf
    /\ pc \in {"temperature_diffusion", "intent_declaration", "resolve_execute",
               "stats_reduction"} =>
          /\ voxel_buf'[parity] = voxel_buf[parity]
          /\ temp_buf'[parity] = temp_buf[parity]

\* C10, amended: in tick n temperature_diffusion, intent_declaration and
\* resolve_execute read the voxels (and temperature_diffusion the
\* temperatures) of slot n mod 2 and write only the opposite slot, which
\* they never read voxels from; apply_commands reads and writes the voxels
\* of slot n mod 2 in place; resolve_execute reads the temperatures the
\* tick has diffused, from the opposite slot, and stats_reduction reads the
\* voxels the tick has written, from the opposite slot.  The parity flips
\* only at the end of a tick, once, and the slot tick n+1 reads then holds
\* what tick n wrote.
C10_ParityProtocol == []ParityInv /\ [][ParityStep]_vars

\* the second tick has run all its dispatches: commands were applied in
\* place in slot 1, protocell metabolism read the diffused temperatures of
\* slot 0, and the results were written to slot 0
C10_Witness ==
    /\ pc = "flip"
    /\ tick_count = 1
    /\ parity = 1
    /\ Access("apply_commands", "voxel", 1, "w") \in acc
    /\ Access("apply_commands", "voxel", 1, "r") \in acc
    /\ Access("temperature_diffusion", "temp", 0, "w") \in acc
    /\ Access("resolve_execute", "temp", 0, "r") \in acc
    /\ Access("resolve_execute", "voxel", 0, "w") \in acc
    /\ Access("stats_reduction", "voxel", 0, "r") \in acc

\* the dispatches of a tick in their order, between the host's upload and
\* the parity flip
DispatchOrder == <<"host", "apply_commands", "temperature_diffusion", "intent_declaration",
                   "resolve_execute", "stats_reduction", "flip">>

PositionOf(k) == CHOOSE n \in 1 .. Len(DispatchOrder) : DispatchOrder[n] = k

DispatchStep ==
    /\ pc' # pc =>
          /\ PositionOf(pc') = (PositionOf(pc) % Len(DispatchOrder)) + 1
          /\ pc \in Kernels => done = Idx
          /\ pc' \in Kernels => done' = {}
    /\ done' # done =>
          \/ pc' # pc
          \/ pc \in Kernels /\ \E i \in Idx \ done : done' = done \cup {i}
    /\ (parity' # parity \/ tick_count' # tick_count) =>
          pc = "flip" /\ pc' = "host" /\ parity' = 1 - parity /\ tick_count' = tick_count + 1
    /\ pc = "flip" => parity' # parity

DeclaredIntent(i) == intent_declaration_main(ReadBuf, params, i).writes[1][2]

\* the intent v is a Replicate or Move of the voxel s toward the voxel t
Targets(v, s, t) ==
    /\ intent_get_action(v) \in {ACTION_REPLICATE, ACTION_MOVE}
    /\ neighbor_in_direction(grid_coords(s, GridSize), intent_get_direction(v), GridSize) = U32(t)

\* C12: when intent_declaration starts the intent buffer holds no intent of
\* an earlier tick, and every intent resolve_execute reads is the one
\* intent_declaration wrote in the same tick from the voxels of that tick;
\* the thread of an Empty voxel that no protocell targets in this tick
\* writes no protocell, whatever was declared the tick before.
C12_IntentsOfThisTick ==
    /\ pc = "intent_declaration" => \A i \in Idx \ done : intent_buf[i] = ZERO
    /\ pc = "resolve_execute" =>
          /\ params.tick_count = tick_count
          /\ \A i \in Idx : intent_buf[i] = DeclaredIntent(i)
          /\ \A t \in done :
                (/\ ReadBuf[t].type = VOXEL_EMPTY
                 /\ ~ \E s \in Idx : ReadBuf[s].type = VOXEL_PROTOCELL
                                     /\ Targets(DeclaredIntent(s), s, t))
                    => /\ tinfo[t].case = "E1"
                       /\ WriteBuf[t].type # VOXEL_PROTOCELL

\* in the second tick resolve_execute has run for an Empty voxel that a
\* protocell targeted in the first tick and no protocell targets now; the
\* voxel that declared the earlier intent no longer holds a protocell
C12_Witness ==
    /\ pc = "resolve_execute"
    /\ tick_count = 1
    /\ \E t \in done, s \in Idx :
          /\ ReadBuf[t].type = VOXEL_EMPTY
          /\ Targets(snap.intents[s], s, t)
          /\ ReadBuf[s].type # VOXEL_PROTOCELL
          /\ intent_buf[s] = ZERO
          /\ Contenders(t) = {}
          /\ WriteBuf[t].type # VOXEL_PROTOCELL

\* the protocells next to voxel i, and whether i has an Empty neighbour
AdjacentProtocells(i) ==
    {j \in Idx : /\ ReadBuf[j].type = VOXEL_PROTOCELL
                 /\ \E d \in Dirs : neighbor_in_direction(grid_coords(i, GridSize), d, GridSize) = U32(j)}

HasEmptyNeighbor(i) ==
    \E j \in Idx : /\ ReadBuf[j].type = VOXEL_EMPTY
                   /\ \E d \in Dirs : neighbor_in_direction(grid_coords(i, GridSize), d, GridSize) = U32(j)

\* the neighbours protocell i may take as prey: protocells whose energy is
\* below i's predation_aggression, if i's predation_capability is not 0
PreyOf(i) ==
    IF genome_get_byte(ReadBuf, i, 7) = 0 THEN {}
    ELSE {j \in AdjacentProtocells(i) : ReadBuf[j].energy < genome_get_byte(ReadBuf, i, 8)}

\* the action of the highest priority whose condition holds for protocell i
ExpectedAction(i) ==
    IF ReadBuf[i].energy = 0 THEN ACTION_DIE
    ELSE IF PreyOf(i) # {} THEN ACTION_PREDATE
    ELSE IF /\ ReadBuf[i].energy
                 > (params.replication_energy_min * genome_get_byte(ReadBuf, i, 2)) \div 255
            /\ HasEmptyNeighbor(i)
         THEN ACTION_REPLICATE
    ELSE IF /\ Mod32(pcg_next(prng_seed(i, params.tick_count, GridSize, 1)), 256)
                 < genome_get_byte(ReadBuf, i, 4)
            /\ HasEmptyNeighbor(i)
         THEN ACTION_MOVE
    ELSE ACTION_IDLE

\* C13: the intent each protocell has declared when intent_declaration has
\* completed is the one of the highest priority whose condition holds, in
\* the order Die > Predate > Replicate > Move > Idle.
C13_HighestPriorityIntent ==
    pc = "resolve_execute" =>
        \A i \in Idx : ReadBuf[i].type = VOXEL_PROTOCELL
                          => intent_get_action(intent_buf[i]) = ExpectedAction(i)

\* the voxel protocell i's intent points at, NO_INDEX outside the grid
IntentTarget(i) ==
    neighbor_in_direction(grid_coords(i, GridSize), intent_get_direction(intent_buf[i]), GridSize)

\* the neighbours of voxel i of type t
NeighborsOfType(i, t) ==
    {j \in Idx : /\ ReadBuf[j].type = t
                 /\ \E d \in Dirs : neighbor_in_direction(grid_coords(i, GridSize), d, GridSize) = U32(j)}

\* the energy protocell i gains from the sources and nutrients next to it
FoodGain(i) ==
    Cardinality(NeighborsOfType(i, VOXEL_ENERGY_SOURCE))
        * ((genome_get_byte(ReadBuf, i, 9) * params.energy_from_source) \div 255)
    + Cardinality(NeighborsOfType(i, VOXEL_NUTRIENT))
        * ((genome_get_byte(ReadBuf, i, 0) * params.energy_from_nutrient) \div 255)

\* C14: every Replicate or Move intent in the buffer when
\* intent_declaration has completed points at a voxel inside the grid that
\* is Empty in the read buffer; a protocell without an Empty neighbour has
\* declared neither, no thread writes an offspring of it or moves it, and
\* its own thread applies metabolism to its full energy.
C14_TargetsEmptyNeighbour ==
    pc = "resolve_execute" =>
        \A i \in Idx : ReadBuf[i].type = VOXEL_PROTOCELL =>
            /\ intent_get_action(intent_buf[i]) \in {ACTION_REPLICATE, ACTION_MOVE}
                  => /\ IntentTarget(i) # NO_INDEX
                     /\ ReadBuf[ToInt(IntentTarget(i))].type = VOXEL_EMPTY
            /\ ~HasEmptyNeighbor(i)
                  => /\ intent_get_action(intent_buf[i]) \in {ACTION_DIE, ACTION_IDLE}
                     /\ \A t \in done : tinfo[t].case \in {"E2", "E3", "E3+"}
                                           => tinfo[t].winner # U32(i)
                     /\ (i \in done /\ ReadBuf[i].energy > 0)
                           => /\ tinfo[i].case = "P3"
                              /\ tinfo[i].avail
                                    = Min(ReadBuf[i].energy + FoodGain(i), params.max_energy)
                              /\ WriteBuf[i].energy = SatSub(tinfo[i].avail, tinfo[i].cost)

\* resolve_execute has completed; a protocell with energy above its
\* replication threshold and one with full movement bias had no Empty
\* neighbour and stayed in place, while another protocell declared
\* Replicate or Move toward an Empty neighbour
C14_Witness ==
    /\ pc = "resolve_execute"
    /\ done = Idx
    /\ \E i \in Idx, k \in Idx, j \in Idx :
          /\ ReadBuf[i].type = VOXEL_PROTOCELL /\ ~HasEmptyNeighbor(i)
          /\ ReadBuf[i].energy
                > (params.replication_energy_min * genome_get_byte(ReadBuf, i, 2)) \div 255
          /\ WriteBuf[i].type = VOXEL_PROTOCELL /\ tinfo[i].case = "P3"
          /\ ReadBuf[k].type = VOXEL_PROTOCELL /\ ~HasEmptyNeighbor(k)
          /\ genome_get_byte(ReadBuf, k, 4) = 255 /\ ReadBuf[k].energy > 0
          /\ tinfo[k].case = "P3"
          /\ ReadBuf[j].type = VOXEL_PROTOCELL
          /\ intent_get_action(intent_buf[j]) \in {ACTION_REPLICATE, ACTION_MOVE}
          /\ ReadBuf[ToInt(IntentTarget(j))].type = VOXEL_EMPTY

\* the protocells whose Predate intent points at voxel t
PredatorsOn(t) ==
    {s \in Idx : /\ ReadBuf[s].type = VOXEL_PROTOCELL
                 /\ intent_get_action(intent_buf[s]) = ACTION_PREDATE
                 /\ IntentTarget(s) = U32(t)}

\* the winner of the bid contest among the voxels of S: the highest bid,
\* and among equal bids the higher voxel index
BidWinner(S) ==
    CHOOSE s \in S : \A r \in S :
        \/ intent_get_bid(intent_buf[r]) < intent_get_bid(intent_buf[s])
        \/ intent_get_bid(intent_buf[r]) = intent_get_bid(intent_buf[s]) /\ r <= s

Holds(t, s) ==
    /\ WriteBuf[t].type \in {VOXEL_PROTOCELL, VOXEL_WASTE}
    /\ WriteBuf[t].species_id = ReadBuf[s].species_id
    /\ WriteBuf[t].type = VOXEL_PROTOCELL =>
          /\ WriteBuf[t].genome = ReadBuf[s].genome
          /\ WriteBuf[t].age = Min(ReadBuf[s].age + 1, 65535)

\* C18: when resolve_execute has completed, a protocell that declared Move
\* toward t and won the contest at t has left Empty at its origin and is at
\* t, as Protocell or as Waste; one that lost is at its origin and not at t.
C18_MovedOrStayed ==
    (pc = "resolve_execute" /\ done = Idx) =>
        \A s \in Idx, t \in Idx :
            (PointsAt(s, t) /\ intent_get_action(intent_buf[s]) = ACTION_MOVE) =>
                IF s = BidWinner(Contenders(t))
                THEN /\ WriteBuf[s].type = VOXEL_EMPTY
                     /\ Holds(t, s)
                     /\ tinfo[t].winner = U32(s)
                ELSE /\ Holds(s, s)
                     /\ tinfo[t].winner # U32(s)

\* the shares of parent s's energy that go to the offspring and stay with s
OffspringShare(s) == (ReadBuf[s].energy * (255 - genome_get_byte(ReadBuf, s, 10))) \div 255
RetainedShare(s) == (ReadBuf[s].energy * genome_get_byte(ReadBuf, s, 10)) \div 255

\* C19: when resolve_execute has completed, for a protocell s that declared
\* Replicate toward t: if its intent won the contest at t, the offspring
\* written at t has energy floor(e * (255 - split_ratio) / 255) and s enters
\* metabolism with floor(e * split_ratio / 255), the two together not above
\* e; if it lost, s enters metabolism with its full energy e.
C19_EnergySplit ==
    (pc = "resolve_execute" /\ done = Idx) =>
        \A s \in Idx, t \in Idx :
            (PointsAt(s, t) /\ intent_get_action(intent_buf[s]) = ACTION_REPLICATE) =>
                IF s = BidWinner(Contenders(t))
                THEN /\ WriteBuf[t].type = VOXEL_PROTOCELL
                     /\ WriteBuf[t].energy = OffspringShare(s)
                     /\ tinfo[t].winner = U32(s)
                     /\ tinfo[s].case = "P2a"
                     /\ tinfo[s].avail = Min(RetainedShare(s) + FoodGain(s), params.max_energy)
                     /\ OffspringShare(s) + RetainedShare(s) <= ReadBuf[s].energy
                ELSE /\ tinfo[s].case = "P2b"
                     /\ tinfo[s].avail = Min(ReadBuf[s].energy + FoodGain(s), params.max_energy)
                     /\ tinfo[t].winner # U32(s)

\* C20: an offspring written by resolve_execute whose parent has
\* mutation_rate byte 0 has the parent's genome, all 16 bytes, and the
\* parent's species_id, at every temperature and temperature sensitivity.
C20_NoMutationAtRateZero ==
    pc = "resolve_execute" =>
        \A t \in done :
            (tinfo[t].case = "E2" /\ genome_get_byte(ReadBuf, ToInt(tinfo[t].winner), 3) = 0) =>
                /\ WriteBuf[t].type = VOXEL_PROTOCELL
                /\ \A b \in 0 .. 15 :
                      genome_get_byte(WriteBuf, t, b) = genome_get_byte(ReadBuf, ToInt(tinfo[t].winner), b)
                /\ WriteBuf[t].species_id = ReadBuf[ToInt(tinfo[t].winner)].species_id

\* an offspring of a parent with mutation_rate 0 has been written at a
\* voxel whose temperature is not the ambient one, with a temperature
\* sensitivity above 0
C20_Witness ==
    /\ pc = "resolve_execute"
    /\ params.temp_sensitivity > 0
    /\ \E t \in done :
          /\ tinfo[t].case = "E2"
          /\ genome_get_byte(ReadBuf, ToInt(tinfo[t].winner), 3) = 0
          /\ temp_buf[write_slot(parity)][t] > 2
          /\ WriteBuf[t].genome = ReadBuf[ToInt(tinfo[t].winner)].genome
          /\ WriteBuf[t].species_id = ReadBuf[ToInt(tinfo[t].winner)].species_id

\* the xor of the four genome words, which the species hash starts from
GenomeXor(g) == Xor32(Xor32(Xor32(g[1], g[2]), g[3]), g[4])

\* C21: every offspring written by resolve_execute (case E2) is a protocell
\* of age 0 whose species_id is the species hash of the genome written with
\* it, the mutated one, and is never 0: a genome whose hash is 0 (its words
\* xor to 0) gets species_id 1.
C21_OffspringAgeAndSpecies ==
    pc = "resolve_execute" =>
        \A t \in done :
            tinfo[t].case = "E2" =>
                /\ WriteBuf[t].type = VOXEL_PROTOCELL
                /\ WriteBuf[t].age = 0
                /\ WriteBuf[t].species_id =
                       compute_species_id(WriteBuf[t].genome[1], WriteBuf[t].genome[2],
                                          WriteBuf[t].genome[3], WriteBuf[t].genome[4])
                /\ WriteBuf[t].species_id # 0
                /\ GenomeXor(WriteBuf[t].genome) = ZERO => WriteBuf[t].species_id = 1

\* an offspring has been written whose genome and species_id differ from
\* its parent's, the parent being older than 0
C21_Witness ==
    /\ pc = "resolve_execute"
    /\ \E t \in done :
          /\ tinfo[t].case = "E2"
          /\ WriteBuf[t].genome # ReadBuf[ToInt(tinfo[t].winner)].genome
          /\ WriteBuf[t].species_id # ReadBuf[ToInt(tinfo[t].winner)].species_id
          /\ ReadBuf[ToInt(tinfo[t].winner)].age > 0
          /\ WriteBuf[t].age = 0

\* an offspring has been written whose genome hashes to 0
C21_ZeroHashOffspring ==
    /\ pc = "resolve_execute"
    /\ \E t \in done :
          /\ tinfo[t].case = "E2"
          /\ GenomeXor(WriteBuf[t].genome) = ZERO
          /\ WriteBuf[t].species_id = 1

\* ------------------------------------------------------------------------
\* Properties of the host (specifications SpecHost and SpecStartup)
\* ------------------------------------------------------------------------
\* frame_ticks counts the ticks of the current frame: 0 when the frame
\* starts, one more with every tick, unchanged by every other step
CountsFrameTicks ==
    /\ (host_pc = "idle" /\ host_pc' = "frame") => sched'.frame_ticks = 0
    /\ tick_count' # tick_count =>
           /\ host_pc = "frame" /\ host_pc' = "frame"
           /\ tick_count' = tick_count + 1
           /\ sched'.frame_ticks = sched.frame_ticks + 1
    /\ (host_pc = "frame" /\ tick_count' = tick_count) => sched'.frame_ticks = sched.frame_ticks

\* C22: in one frame the scheduler issues at most 3 ticks, whatever time
\* has accumulated and whatever the tick rate: a tick is issued only within
\* a frame in which fewer than 3 ticks have been issued so far.
C22_AtMostThreeTicksPerFrame ==
    [][/\ CountsFrameTicks
       /\ tick_count' # tick_count => sched.frame_ticks < MAX_TICKS_PER_FRAME
       /\ sched'.frame_ticks <= MAX_TICKS_PER_FRAME]_vars

\* a frame of a running engine at rate 1/s has issued 3 ticks and ends with
\* more than a tick duration still accumulated
C22_Witness ==
    /\ host_pc = "frame"
    /\ ~sched.paused
    /\ sched.rate = 1
    /\ sched.frame_ticks = MAX_TICKS_PER_FRAME
    /\ sched.accumulator >= tick_duration(sched.rate)
    /\ ENABLED FrameEnd

ReadbackTransitions ==
    {<<"Idle", "Requested">>, <<"Requested", "Mapped">>, <<"Mapped", "Read">>,
     <<"Read", "Requested">>}

\* C24: at most one map of the staging buffer is outstanding; the readback
\* moves only along Idle -> Requested -> Mapped -> Read (and from Read to
\* the next request); a map is requested only by a tick, and only when no
\* map is outstanding (the previous one was read or none was made); a tick
\* that finds a map requested or unread leaves the readback as it is, and a
\* due tick is never held back by the readback.
C24_OneMapOutstanding ==
    [][/\ readback.maps <= 1 /\ readback'.maps <= 1
       /\ readback'.maps = (IF readback'.state \in {"Requested", "Mapped"} THEN 1 ELSE 0)
       /\ readback'.state # readback.state =>
              <<readback.state, readback'.state>> \in ReadbackTransitions
       /\ readback'.maps > readback.maps =>
              /\ tick_count' = tick_count + 1
              /\ readback.state \in {"Idle", "Read"}
              /\ readback.maps = 0
       /\ (tick_count' # tick_count /\ readback.state \in {"Requested", "Mapped"}) =>
              readback' = readback
       /\ (host_pc = "frame" /\ TickDue) => ENABLED HostTick]_vars

\* a tick has run while the previous map was completed but not yet read,
\* and started no new map
C24_Witness ==
    /\ host_pc = "frame"
    /\ sched.frame_ticks >= 1
    /\ tick_count >= 2
    /\ readback.state = "Mapped"
    /\ readback.maps = 1

\* the tier startup tried first
FirstTier == IF startup.fallbacks = << >> THEN startup.tier ELSE startup.fallbacks[1]

\* C25: the tiers are tried from the first one downward without skipping
\* any, each fallback following a failed allocation; startup ends running
\* at the highest of these tiers at which allocation succeeds and without
\* an error, or, only when allocation failed at every tier down to
\* Dense-Low, with exactly one unsupported-platform error; until then a
\* further attempt is always possible.
C25_FallbackToNextLowerTier ==
    /\ startup.tier = FirstTier + Len(startup.fallbacks)
    /\ \A k \in 1 .. Len(startup.fallbacks) :
          /\ startup.fallbacks[k] = FirstTier + k - 1
          /\ startup.fallbacks[k] \notin startup.device
    /\ host_pc = "idle" =>
          /\ startup.tier \in startup.device
          /\ startup.errors = 0
    /\ host_pc = "unsupported" =>
          /\ startup.tier = Len(Tiers)
          /\ \A t \in FirstTier .. Len(Tiers) : t \notin startup.device
          /\ startup.errors = 1
          /\ ~ENABLED TryAllocate
    /\ host_pc = "startup" =>
          /\ startup.errors = 0
          /\ ENABLED TryAllocate

\* startup tried Sparse and Dense-High, which failed, and runs at Dense-Mid
\* on a device where Dense-Low can be allocated as well
C25_Witness ==
    /\ host_pc = "idle"
    /\ startup.fallbacks = <<1, 2>>
    /\ Tiers[startup.tier] = "Dense-Mid"
    /\ startup.device = {3, 4}

\* startup ended with the unsupported-platform error after three fallbacks
C25_UnsupportedPlatform ==
    /\ host_pc = "unsupported"
    /\ startup.fallbacks = <<1, 2, 3>>
    /\ startup.errors = 1

\* ------------------------------------------------------------------------
\* Properties of command application, intents and the stats reduction
\* ------------------------------------------------------------------------
\* the Chebyshev distance between voxel i and the centre of cmd
Chebyshev(cmd, i) ==
    LET pos == grid_coords(i, params.grid_size)
        dx == IF pos[1] >= cmd.x THEN pos[1] - cmd.x ELSE cmd.x - pos[1]
        dy == IF pos[2] >= cmd.y THEN pos[2] - cmd.y ELSE cmd.y - pos[2]
        dz == IF pos[3] >= cmd.z THEN pos[3] - cmd.z ELSE cmd.z - pos[3]
    IN  CHOOSE m \in {dx, dy, dz} : m >= dx /\ m >= dy /\ m >= dz

KnownCommands == {CMD_PLACE_VOXEL, CMD_REMOVE_VOXEL, CMD_SEED_PROTOCELLS, CMD_APPLY_TOXIN}

\* voxel v at index i after a command of cmd's type and parameter that
\* covers it
EffectAt(v, cmd, i) ==
    LET pos == grid_coords(i, params.grid_size)
        here == [cmd EXCEPT !.x = pos[1], !.y = pos[2], !.z = pos[3], !.radius = 0]
        w == ApplyCommand([snap.voxels EXCEPT ![i] = v], here, params, i)
    IN  IF w = << >> THEN v ELSE w[1][2]

\* voxel v at index i after the commands k .. n of the command buffer, one
\* after the other
RECURSIVE AfterCommands(_, _, _, _)
AfterCommands(v, i, k, n) ==
    IF k > n THEN v
    ELSE IF k = n
    THEN IF command_buf[k].type \in KnownCommands
            /\ Chebyshev(command_buf[k], i) <= command_buf[k].radius
         THEN EffectAt(v, command_buf[k], i) ELSE v
    ELSE Bind(AfterCommands(v, i, k, (k + n) \div 2), LAMBDA half :
              AfterCommands(half, i, (k + n) \div 2 + 1, n))

\* the number of commands that are processed
Processed == IF Len(command_buf) < 64 THEN Len(command_buf) ELSE 64

ToxinResistance(v) ==
    genome_get_byte_from_words(v.genome[1], v.genome[2], v.genome[3], v.genome[4], 6)

\* the voxel of thread i as the last processed command found it
BeforeLast(i) == AfterCommands(snap.voxels[i], i, 1, Processed - 1)

\* C27: when the last processed command is ApplyToxin with threshold t, the
\* voxel of every thread that has run and that the command covers is Waste
\* if the command found a protocell with toxin_resistance < t there, and is
\* otherwise as the command found it: protocells with toxin_resistance >= t
\* and voxels of every other type are left unchanged.
C27_ToxinBelowThreshold ==
    (pc = "apply_commands" /\ Processed >= 1
       /\ command_buf[Processed].type = CMD_APPLY_TOXIN) =>
        \A i \in done :
            Chebyshev(command_buf[Processed], i) <= command_buf[Processed].radius =>
                IF /\ BeforeLast(i).type = VOXEL_PROTOCELL
                   /\ ToxinResistance(BeforeLast(i)) < command_buf[Processed].param_0
                THEN voxel_buf[read_slot(parity)][i].type = VOXEL_WASTE
                ELSE voxel_buf[read_slot(parity)][i] = BeforeLast(i)

\* the dispatch has completed with a toxin command that covered a protocell
\* below the threshold, now Waste, a protocell whose resistance equals the
\* threshold and a voxel that is not a protocell, both unchanged
C27_Witness ==
    /\ pc = "apply_commands"
    /\ done = Idx
    /\ Processed >= 1
    /\ command_buf[Processed].type = CMD_APPLY_TOXIN
    /\ \A i \in Idx : Chebyshev(command_buf[Processed], i) <= command_buf[Processed].radius
    /\ \E i \in Idx :
          /\ BeforeLast(i).type = VOXEL_PROTOCELL
          /\ ToxinResistance(BeforeLast(i)) < command_buf[Processed].param_0
          /\ voxel_buf[read_slot(parity)][i].type = VOXEL_WASTE
    /\ \E i \in Idx :
          /\ BeforeLast(i).type = VOXEL_PROTOCELL
          /\ ToxinResistance(BeforeLast(i)) = command_buf[Processed].param_0
          /\ voxel_buf[read_slot(parity)][i] = BeforeLast(i)
    /\ \E i \in Idx :
          /\ BeforeLast(i).type \in {VOXEL_EMPTY, VOXEL_WALL}
          /\ voxel_buf[read_slot(parity)][i] = BeforeLast(i)

\* C28: decoding the word that intent_encode makes of an action in 0..5, a
\* direction in 0..6 and a bid below 2^26 gives back the action, the
\* direction and the bid.
C28_IntentRoundTrip ==
    probe.op = "intent" =>
        /\ probe.action \in 0 .. 5 /\ probe.direction \in 0 .. 6
        /\ probe.bid >= 0 /\ probe.bid < BID_SPAN
        /\ probe.decoded = <<probe.action, probe.direction, probe.bid>>

\* the largest action, direction and bid have been encoded and decoded
C28_Witness ==
    /\ probe.op = "intent"
    /\ probe.action = 5 /\ probe.direction = 6 /\ probe.bid = 67108863
    /\ probe.word = <<65535, 65535 - 16 - 1>>
    /\ probe.decoded = <<5, 6, 67108863>>

\* the protocells of the voxel buffer the tick has written, and the sum of
\* the energies of the protocells among the voxels i .. NumVoxels - 1
WrittenProtocells == {i \in Idx : WriteBuf[i].type = VOXEL_PROTOCELL}

RECURSIVE EnergyFrom(_)
EnergyFrom(i) ==
    IF i >= NumVoxels THEN 0
    ELSE (IF i \in WrittenProtocells THEN WriteBuf[i].energy ELSE 0) + EnergyFrom(i + 1)

\* every thread of the stats_reduction dispatch has ended
StatsReduced == pc = "stats_reduction" /\ \A t \in Threads : wg.at[t] = "end"

\* C29: when every thread of stats_reduction has ended, in whatever order
\* the threads and the workgroups took their steps, the population and the
\* total energy of the stats buffer are the number of Protocell voxels and
\* the sum of their energies in the voxel buffer the tick has written,
\* whatever the stats buffer and the workgroup memory held before.
C29_StatsMatchWrittenBuffer ==
    StatsReduced =>
        /\ stats_buf.population = Cardinality(WrittenProtocells)
        /\ stats_buf.total_energy = EnergyFrom(0)

\* the reduction has ended on a buffer with protocells of energy above 0 in
\* both workgroups
C29_Witness ==
    /\ StatsReduced
    /\ \E i, j \in WrittenProtocells :
          /\ GroupOf(i) # GroupOf(j)
          /\ WriteBuf[i].energy > 0 /\ WriteBuf[j].energy > 0
    /\ stats_buf.population >= 3
    /\ stats_buf.total_energy = EnergyFrom(0)

\* C30: once the thread of an Empty voxel t has run in resolve_execute, if
\* some neighbour declared Replicate or Move toward t then the thread found
\* a winner, and the winner is the contender with the highest bid, the
\* higher voxel index among contenders with that bid.
C30_HighestBidWins ==
    pc = "resolve_execute" =>
        \A t \in done :
            (ReadBuf[t].type = VOXEL_EMPTY /\ Contenders(t) # {}) =>
                /\ tinfo[t].winner # NO_INDEX
                /\ tinfo[t].winner = U32(BidWinner(Contenders(t)))

IntentActions == {ACTION_DIE, ACTION_PREDATE, ACTION_REPLICATE, ACTION_MOVE, ACTION_IDLE}

SlotAsDeclared(i) ==
    /\ intent_buf[i] = DeclaredIntent(i)
    /\ IF ReadBuf[i].type = VOXEL_PROTOCELL
       THEN intent_get_action(intent_buf[i]) \in IntentActions
       ELSE intent_buf[i] = ZERO

C32_OwnIntentSlotWritten ==
    /\ pc = "intent_declaration" =>
          \A i \in Idx : IF i \in done THEN wlog[i] = <<i>> /\ SlotAsDeclared(i)
                         ELSE wlog[i] = << >>
    /\ pc \in {"resolve_execute", "stats_reduction", "flip"} => \A i \in Idx : SlotAsDeclared(i)

\* intent_declaration of the second tick has completed: a protocell declared
\* Replicate or Move, another declared Idle or Die, and the slot of a voxel
\* that is no longer a protocell, which held an intent in the first tick,
\* was written with zero by its thread
C32_Witness ==
    /\ pc = "intent_declaration"
    /\ done = Idx
    /\ tick_count = 1
    /\ \E i \in Idx, j \in Idx, k \in Idx :
          /\ ReadBuf[i].type = VOXEL_PROTOCELL
          /\ intent_get_action(intent_buf[i]) \in {ACTION_REPLICATE, ACTION_MOVE}
          /\ ReadBuf[j].type = VOXEL_PROTOCELL
          /\ intent_get_action(intent_buf[j]) \in {ACTION_IDLE, ACTION_DIE}
          /\ ReadBuf[k].type # VOXEL_PROTOCELL
          /\ snap.intents[k] # ZERO
          /\ intent_buf[k] = ZERO
          /\ wlog[k] = <<k>>

\* ------------------------------------------------------------------------
\* C33: in every tick the only kernel that writes the voxel buffer the tick
\* reads is apply_commands; while it runs no other kernel has touched a
\* buffer, a thread changes no voxel but its own, and the voxels of the
\* threads still to run are as the tick found them; from the end of that
\* dispatch to the end of the tick the read buffer stays as the commands
\* left it, so temperature_diffusion, intent_declaration and
\* resolve_execute all read the same voxels.
\* ------------------------------------------------------------------------
LaterKernels == {"temperature_diffusion", "intent_declaration", "resolve_execute",
                 "stats_reduction"}

ReadBufferInv ==
    /\ \A a \in acc : (a.buffer = "voxel" /\ a.mode = "w" /\ a.slot = read_slot(parity)
                         /\ pc \in Kernels) => a.kernel = "apply_commands"
    /\ pc = "apply_commands" =>
          /\ \A a \in acc : a.kernel = "apply_commands"
          /\ \A j \in Idx : /\ \A k \in 1 .. Len(wlog[j]) : wlog[j][k] = j
                            /\ j \notin done => ReadBuf[j] = snap.voxels[j]
    /\ pc \in LaterKernels =>
          \A i \in Idx : ReadBuf[i] = AfterCommands(snap.voxels[i], i, 1, Processed)

ReadBufferStep ==
    /\ pc = "apply_commands" =>
          \A j \in Idx : voxel_buf'[parity][j] # voxel_buf[parity][j] => j \in done' \ done
    /\ pc \in LaterKernels => voxel_buf'[parity] = voxel_buf[parity]

C33_ReadBufferWrittenByCommandsOnly == []ReadBufferInv /\ [][ReadBufferStep]_vars

\* resolve_execute has completed in a tick whose commands changed a voxel:
\* apply_commands wrote the read buffer, and temperature_diffusion,
\* intent_declaration and resolve_execute have read it since
C33_Witness ==
    /\ pc = "resolve_execute"
    /\ done = Idx
    /\ \E i \in Idx : ReadBuf[i] # snap.voxels[i]
    /\ Access("apply_commands", "voxel", read_slot(parity), "w") \in acc
    /\ \A k \in {"temperature_diffusion", "intent_declaration", "resolve_execute"} :
          Access(k, "voxel", read_slot(parity), "r") \in acc

\* ------------------------------------------------------------------------
\* C34: for every SeedProtocells command c among those processed and every
\* voxel i, with the voxel as the commands before c leave it: outside the
\* brush, and inside it when the voxel is not Empty, the command leaves the
\* voxel as it is; an Empty voxel inside the brush becomes a Protocell of
\* age 0 with the energy of the command, the four words the thread's
\* generator of this dispatch yields as genome, and the species_id hashed
\* from that genome, which is not 0.  When c is the last command that
\* covers i, that is what the thread has left in the buffer.
\* ------------------------------------------------------------------------
SeedStream(i) == prng_seed(i, params.tick_count, params.grid_size, 3)

SeededGenome(i) ==
    <<pcg_output(pcg_state_after(SeedStream(i), 0)), pcg_output(pcg_state_after(SeedStream(i), 1)),
      pcg_output(pcg_state_after(SeedStream(i), 2)), pcg_output(pcg_state_after(SeedStream(i), 3))>>

InBrush(cmd, i) == Chebyshev(cmd, i) <= cmd.radius

SeedEffect(before, after, cmd, i) ==
    IF InBrush(cmd, i) /\ before.type = VOXEL_EMPTY
    THEN /\ after.type = VOXEL_PROTOCELL
         /\ after.age = 0
         /\ after.energy = cmd.param_0
         /\ after.genome = SeededGenome(i)
         /\ after.species_id = compute_species_id(after.genome[1], after.genome[2],
                                                  after.genome[3], after.genome[4])
         /\ after.species_id # 0
    ELSE after = before

C34_SeedOnlyEmpty ==
    pc = "apply_commands" =>
        \A c \in 1 .. Processed :
            command_buf[c].type = CMD_SEED_PROTOCELLS =>
                \A i \in Idx :
                    /\ SeedEffect(AfterCommands(snap.voxels[i], i, 1, c - 1),
                                  AfterCommands(snap.voxels[i], i, 1, c), command_buf[c], i)
                    /\ (i \in done /\ \A k \in (c + 1) .. Processed : ~ InBrush(command_buf[k], i))
                          => ReadBuf[i] = AfterCommands(snap.voxels[i], i, 1, c)

\* apply_commands has completed on a batch whose SeedProtocells command
\* covered a voxel that was Empty, now a Protocell of the command's energy,
\* and a voxel that held something else, left as it was
C34_Witness ==
    /\ pc = "apply_commands"
    /\ done = Idx
    /\ \E c \in 1 .. Processed, i \in Idx, j \in Idx :
          /\ command_buf[c].type = CMD_SEED_PROTOCELLS
          /\ InBrush(command_buf[c], i) /\ InBrush(command_buf[c], j)
          /\ \A k \in (c + 1) .. Processed : ~ InBrush(command_buf[k], i)
          /\ AfterCommands(snap.voxels[i], i, 1, c - 1).type = VOXEL_EMPTY
          /\ ReadBuf[i].type = VOXEL_PROTOCELL /\ ReadBuf[i].energy = command_buf[c].param_0
          /\ ReadBuf[i].species_id # 0
          /\ AfterCommands(snap.voxels[j], j, 1, c - 1).type \notin {VOXEL_EMPTY, VOXEL_WALL}
          /\ ReadBuf[j] = snap.voxels[j]

\* ------------------------------------------------------------------------
\* C35: every Move intent in the buffer points at a voxel inside the grid
\* that is Empty in the read buffer.  With the food-aligned directions of a
\* protocell being those of its Empty neighbours that the neighbour scan
\* also marks as food directions: if there is one and the movement-direction
\* roll mod 255 is below chemotaxis_strength, the direction of the intent
\* is food-aligned; otherwise it is the direction of an Empty neighbour,
\* the one at position roll mod count in scan order.
\* ------------------------------------------------------------------------
\* the directions, in scan order, in which voxel i has a neighbour of a type in T
RECURSIVE DirectionsToward(_, _, _)
DirectionsToward(i, T, d) ==
    IF d > 5 THEN << >>
    ELSE (IF \E j \in Idx : /\ neighbor_in_direction(grid_coords(i, GridSize), d, GridSize) = U32(j)
                            /\ ReadBuf[j].type \in T
          THEN <<d>> ELSE << >>) \o DirectionsToward(i, T, d + 1)

Range(seq) == {seq[k] : k \in 1 .. Len(seq)}

Food == {VOXEL_NUTRIENT, VOXEL_ENERGY_SOURCE}

\* the second output of the generator of thread i in intent_declaration
MovementDirectionRoll(i) ==
    pcg_output(pcg_state_after(prng_seed(i, params.tick_count, GridSize, 1), 1))

FoodAligned(i) == Range(DirectionsToward(i, {VOXEL_EMPTY}, 0)) \cap Range(DirectionsToward(i, Food, 0))

NoFoodAlignedEmptyNeighbour == \A i \in Idx : FoodAligned(i) = {}

\* ------------------------------------------------------------------------
\* C36: Waste decay
\* ------------------------------------------------------------------------
\* the ticks a Waste voxel of age a still needs before it is replaced
TicksToDecay(a) == Max(1, params.waste_decay_ticks - a)

\* once the resolve thread of a Waste voxel has run, the write buffer holds
\* Waste one tick older while the incremented age is below waste_decay_ticks,
\* and Nutrient or Empty as soon as the incremented age reaches it
WasteStep ==
    pc = "resolve_execute" =>
        \A i \in done :
            ReadBuf[i].type = VOXEL_WASTE =>
                IF ReadBuf[i].age + 1 < params.waste_decay_ticks
                THEN /\ WriteBuf[i].type = VOXEL_WASTE
                     /\ WriteBuf[i].age = ReadBuf[i].age + 1
                     /\ tinfo[i].case = "W1"
                ELSE /\ WriteBuf[i].type \in {VOXEL_NUTRIENT, VOXEL_EMPTY}
                     /\ tinfo[i].case = "W2"

\* a Waste voxel seen between two ticks is no longer Waste at some later
\* tick boundary, whenever the run is followed long enough for its age
WasteDisappears ==
    \A i \in Idx :
        (/\ pc = "host"
         /\ ReadBuf[i].type = VOXEL_WASTE
         /\ tick_count + TicksToDecay(ReadBuf[i].age) <= MaxWasteTicks)
            ~> (pc = "host" /\ ReadBuf[i].type # VOXEL_WASTE)

TempRead == temp_buf[read_slot(parity)]
TempWrite == temp_buf[write_slot(parity)]

\* the in-grid cells one step away from i along one axis
FaceNeighbours(i) ==
    {j \in Idx : LET a == grid_coords(i, GridSize)
                     b == grid_coords(j, GridSize)
                 IN  Abs(a[1] - b[1]) + Abs(a[2] - b[2]) + Abs(a[3] - b[3]) = 1}

RECURSIVE SumTemps(_, _)
SumTemps(T, S) ==
    IF S = {} THEN 0 ELSE LET j == CHOOSE k \in S : TRUE IN T[j] + SumTemps(T, S \ {j})

\* own temperature moved by diffusion_rate toward the mean over the cells
\* of N, rounded down and clamped; unchanged when N is empty
TowardMean(T, i, N) ==
    LET n == Cardinality(N)
        num == params.diffusion_rate[1] * (SumTemps(T, N) - n * T[i])
        den == params.diffusion_rate[2] * n
    IN  IF n = 0 THEN T[i]
        ELSE Max(0, Min(TEMP_ONE, T[i] + (num - (num % den)) \div den))

NonWallNeighbours(i) == {j \in FaceNeighbours(i) : ReadBuf[j].type # VOXEL_WALL}

ReadOffsets(r) == <<4 * r.type, 4 * r.x, 4 * r.y, 4 * r.z, 4 * r.radius, 4 * r.param_0>>

\* C38 as stated: record c is read at byte offset 4 + 64 c, right after a
\* 4-byte count, fields type, x, y, z, radius, param0, param1 in consecutive
\* words.
C38_RecordAfterCountWord ==
    probe.op = "command" =>
        ReadOffsets(probe.record) = [k \in 1 .. 7 |-> 4 + 64 * probe.c + 4 * (k - 1)]

\* C38: record c (0-based, below the count in word 0 capped at 64) is read
\* at byte offset 16 + 64 c, after a header of four words of which the first
\* is the count, fields type, x, y, z, radius, param0 in consecutive words;
\* no word for param1 is read.
C38_RecordAfterHeader ==
    probe.op = "command" =>
        /\ probe.command_count = Min(probe.n, 64)
        /\ probe.c < probe.command_count
        /\ ReadOffsets(probe.record) = [k \in 1 .. 6 |-> 16 + 64 * probe.c + 4 * (k - 1)]

\* the last record of a full buffer was read, from bytes 4048 .. 4071
C38_Witness ==
    /\ probe.op = "command"
    /\ probe.n = 100 /\ probe.command_count = 64 /\ probe.c = 63
    /\ probe.record.type = 1012 /\ probe.record.param_0 = 1017

\* ------------------------------------------------------------------------
\* C39: opposite directions and the contender scan
\* ------------------------------------------------------------------------
\* the voxels of the probed grid whose Replicate or Move intent leads to t
LeadingTo(intents, gs, t) ==
    {s \in DOMAIN intents :
        /\ intent_get_action(intents[s]) \in {ACTION_REPLICATE, ACTION_MOVE}
        /\ neighbor_in_direction(grid_coords(s, gs), intent_get_direction(intents[s]), gs)
               = U32(t)}

\* C39: for every voxel P of the grid and direction d in 0..5 whose
\* neighbour N is inside the grid, the opposite of the opposite of d is d and
\* the neighbour of N in the opposite direction is P; the contenders the scan
\* of a target finds are exactly the voxels whose intent direction leads to it.
C39_OppositeLeadsBack ==
    probe.op = "contenders" =>
        /\ \A d \in 0 .. 5 :
              /\ probe.steps[d].oppopp = d
              /\ probe.steps[d].n # NO_INDEX => probe.steps[d].back = U32(probe.target)
        /\ probe.found = {U32(s) : s \in LeadingTo(probe.intents, probe.gs, probe.target)}

\* the scan of the centre of a 3 x 3 x 3 grid, whose six neighbours are all
\* inside, found some of them and left out others that declared an action
C39_Witness ==
    /\ probe.op = "contenders"
    /\ probe.gs = 3 /\ probe.target = 13
    /\ \A d \in 0 .. 5 : probe.steps[d].n # NO_INDEX /\ probe.steps[d].opp # d
    /\ Cardinality(probe.found) >= 2
    /\ \E d \in 0 .. 5 :
          /\ probe.steps[d].n \notin probe.found
          /\ intent_get_action(probe.intents[ToInt(probe.steps[d].n)]) = ACTION_MOVE

\* ------------------------------------------------------------------------
\* C40: the highlighted tool and the tool of the bridge
\* ------------------------------------------------------------------------
\* C40: after any sequence of toolbar clicks and keyboard shortcuts (keys
\* 1-8, Escape) the highlighted tool, activeTool, is the tool most recently
\* passed to the bridge with set_tool; while nothing has been passed, no
\* tool is highlighted.
C40_ActiveToolIsLastSetTool ==
    IF ui.set_tool = {} THEN ui.activeTool = 0 ELSE ui.set_tool = {ui.activeTool}

====
